---------------------------- MODULE Spec2Model ----------------------------
(***************************************************************************)
(* Model of the PyCOMPSs persistent worker pipe executor                   *)
(* (pycompss/worker/piper/commons/executor.py).                            *)
(*                                                                         *)
(* Text is modelled as a sequence of atoms: an atom is a word chunk such   *)
(* as "endTask" or "42", or one of the separator characters " ", ",",      *)
(* "_" and "\n".  A command line, an environment value and a pipe message  *)
(* are such sequences, so that split, join and replace are computed.       *)
(***************************************************************************)
EXTENDS Integers, Sequences, FiniteSets, TLC

(***************************************************************************)
(* Bounds of the model.                                                    *)
(***************************************************************************)
MaxCommands == 3
MaxHandlers == 2
MaxDepth == 2
MaxCalls == 2
MaxStack == 2

(***************************************************************************)
(* Text helpers.                                                           *)
(***************************************************************************)
Whitespace == {" ", "\n"}

RECURSIVE Join(_, _)
Join(sep, parts) ==
    IF parts = <<>> THEN <<>>
    ELSE IF Len(parts) = 1 THEN parts[1]
    ELSE parts[1] \o sep \o Join(sep, Tail(parts))

RECURSIVE SplitAcc(_, _, _, _)
SplitAcc(s, seps, cur, keepEmpty) ==
    IF s = <<>>
    THEN IF cur = <<>> /\ ~keepEmpty THEN <<>> ELSE <<cur>>
    ELSE IF s[1] \in seps
         THEN (IF cur = <<>> /\ ~keepEmpty THEN <<>> ELSE <<cur>>)
              \o SplitAcc(Tail(s), seps, <<>>, keepEmpty)
         ELSE SplitAcc(Tail(s), seps, Append(cur, s[1]), keepEmpty)

\* str.split(): split on runs of whitespace, no empty tokens
Split(s) == SplitAcc(s, Whitespace, <<>>, FALSE)

\* str.split(","): split on every comma, empty tokens kept
SplitOn(s, c) == SplitAcc(s, {c}, <<>>, TRUE)

\* str.replace(a, b) for one-character a and b
Replace(s, a, b) == [i \in 1..Len(s) |-> IF s[i] = a THEN b ELSE s[i]]

Numerals == <<"0", "1", "2", "3", "4", "5", "6", "7", "8", "9">>

\* str(n) for the integers of the model
StrOfInt(n) == <<Numerals[n + 1]>>

\* int(s) succeeds on a text made of one numeral
IsIntStr(s) == Len(s) = 1 /\ \E n \in 0..9 : StrOfInt(n) = s

IntOfStr(s) == CHOOSE n \in 0..9 : StrOfInt(n) = s

\* Python values held in keyword arguments, in argument lists and in the
\* configuration: a string, an integer, a list, or None
String(t) == [str |-> t]
Integer(n) == [int |-> n]
List(l) == [list |-> l]
NoneObject == [none |-> TRUE]

(***************************************************************************)
(* Protocol tags (pycompss.worker.piper.commons.constants).                *)
(***************************************************************************)
EXECUTE_TASK_TAG == <<"EXECUTE_TASK">>
END_TASK_TAG == <<"endTask">>
COMPSS_EXCEPTION_TAG == <<"compssExceptionTask">>
PING_TAG == <<"PING">>
PONG_TAG == <<"PONG">>
QUIT_TAG == <<"QUIT">>

SP == <<" ">>
NL == <<"\n">>
SENTINEL == <<"-">>

(***************************************************************************)
(* Process environment: a function whose domain is the set of variables    *)
(* that are set.                                                           *)
(***************************************************************************)
BindingVarsCpu == {"COMPSS_BINDED_CPUS"}
BindingVarsGpu == {"COMPSS_BINDED_GPUS", "CUDA_VISIBLE_DEVICES",
                   "GPU_DEVICE_ORDINAL"}
SetupVars == {"COMPSS_NUM_NODES", "COMPSS_HOSTNAMES", "COMPSS_NUM_THREADS",
              "OMP_NUM_THREADS"}
EnvVars == BindingVarsCpu \cup BindingVarsGpu \cup SetupVars

\* os.environ[k] = v
SetEnv(e, k, v) == [x \in DOMAIN e \cup {k} |-> IF x = k THEN v ELSE e[x]]

\* del os.environ[k]  (the caller checks k \in DOMAIN e: KeyError otherwise)
DelEnv(e, k) == [x \in DOMAIN e \ {k} |-> e[x]]

EmptyEnv == [x \in {} |-> <<>>]

\* an inherited environment that already carries the binding variables
InheritedEnv == [x \in BindingVarsCpu \cup BindingVarsGpu |-> <<"5">>]


(***************************************************************************)
(* Commands the runtime may send.  Token layout of EXECUTE_TASK as in the  *)
(* comments of process_task: 0 tag, 1..3 job id/out/err, 4 tracing,        *)
(* 5 task id, 6 debug, 7 storage conf, 8 operation type, 9 module,         *)
(* 10 method, 11 time out, 12 number of nodes, the node names, computing   *)
(* units, has target, has return, number of parameters, and the last three *)
(* tokens cpu mask, gpu mask and a reserved slot.                          *)
(***************************************************************************)
TaskLine(job, hosts, cu, cpuMask, gpuMask) ==
    Join(SP, <<EXECUTE_TASK_TAG, job, <<"/t/job", job[1], ".out">>,
               <<"/t/job", job[1], ".err">>, <<"false">>, job, <<"false">>,
               <<"null">>, <<"METHOD">>, <<"mod">>, <<"fn">>, <<"0">>,
               StrOfInt(Len(hosts))>>
             \o hosts
             \o <<cu, <<"false">>, <<"null">>, <<"0">>,
                  cpuMask, gpuMask, <<"reserved">>>>)

TaskCommands ==
    { TaskLine(<<"42">>, <<<<"host1">>>>, <<"2">>, <<"0", ",", "1">>, SENTINEL),
      TaskLine(<<"43">>, <<<<"host1">>, <<"host2">>>>, <<"1">>, SENTINEL, <<"0">>),
      TaskLine(<<"43">>, <<<<"host1">>>>, <<"2">>, SENTINEL, <<"0", ",", "1">>) }

PingLine == PING_TAG
QuitLine == QUIT_TAG
UnknownLine == <<"FOO", " ", "bar">>

Commands == TaskCommands \cup {PingLine, QuitLine, UnknownLine}

(***************************************************************************)
(* Results of the task dispatcher execute_task (an external collaborator): *)
(* (exit_value, new_types, new_values, timed_out, except_msg).             *)
(***************************************************************************)
DispatcherResults ==
    { [raised |-> FALSE, exit_value |-> 0, new_types |-> <<>>,
       new_values |-> <<>>, except_msg |-> <<>>],
      [raised |-> FALSE, exit_value |-> 0, new_types |-> <<9, 4>>,
       new_values |-> <<<<"null">>, <<"psco1">>>>, except_msg |-> <<>>],
      [raised |-> FALSE, exit_value |-> 2, new_types |-> <<>>,
       new_values |-> <<>>, except_msg |-> <<"boom", " ", "reason">>],
      [raised |-> FALSE, exit_value |-> 7, new_types |-> <<>>,
       new_values |-> <<>>, except_msg |-> <<>>] }

\* the call of execute_task ends with an exception instead of a result
DispatcherRaise ==
    [raised |-> TRUE, exit_value |-> 0, new_types |-> <<>>,
     new_values |-> <<>>, except_msg |-> <<>>]

DispatcherOutcomes == DispatcherResults \cup {DispatcherRaise}

NoResult == [raised |-> FALSE, exit_value |-> 0, new_types |-> <<>>,
             new_values |-> <<>>, except_msg |-> <<>>]

\* affinity of a process whose affinity was never set
DefaultAffinity == <<0, 1, 2, 3>>

(***************************************************************************)
(* Logging handlers: a handler is a record, a logger is the list of its    *)
(* handlers.                                                               *)
(***************************************************************************)
StreamHandler(owner, i) == [name |-> <<owner, Numerals[i + 1]>>, level |-> "NOTSET"]

FileHandler(file, lvl) == [name |-> file, level |-> lvl]

RECURSIVE RemoveFirst(_, _)
RemoveFirst(hs, h) ==
    IF hs = <<>> THEN <<>>
    ELSE IF hs[1] = h THEN Tail(hs)
    ELSE <<hs[1]>> \o RemoveFirst(Tail(hs), h)

IsIn(hs, h) == \E i \in 1..Len(hs) : hs[i] = h

\* Logger.removeHandler
removeHandler(hs, h) == IF IsIn(hs, h) THEN RemoveFirst(hs, h) ELSE hs

\* Logger.addHandler
addHandler(hs, h) == IF IsIn(hs, h) THEN hs ELSE Append(hs, h)

RECURSIVE removeAll(_, _)
removeAll(hs, toRemove) ==
    IF toRemove = <<>> THEN hs
    ELSE removeAll(removeHandler(hs, toRemove[1]), Tail(toRemove))

RECURSIVE addAll(_, _)
addAll(hs, toAdd) ==
    IF toAdd = <<>> THEN hs
    ELSE addAll(addHandler(hs, toAdd[1]), Tail(toAdd))

\* "for h in logger.handlers: logger.removeHandler(h)": the list is iterated
\* by position while it shrinks
RECURSIVE removeWhileIterating(_, _)
removeWhileIterating(hs, i) ==
    IF i > Len(hs) THEN hs
    ELSE removeWhileIterating(removeHandler(hs, hs[i]), i + 1)


(***************************************************************************)
(* Python indexing: At(s, i) is s[i] and Slice(s, a, b) is s[a:b], for     *)
(* 0-based i, a, b; a negative i counts from the end.                      *)
(***************************************************************************)
At(s, i) == IF i >= 0 THEN s[i + 1] ELSE s[Len(s) + i + 1]

Slice(s, a, b) == SubSeq(s, a + 1, b)

(***************************************************************************)
(* Pipe.write: the message and a newline are appended to the output pipe.  *)
(***************************************************************************)
write_lost(pipe, message) == pipe

write_front(pipe, message) == <<message \o NL>> \o pipe

write(pipe, message) == Append(pipe, message \o NL)

(***************************************************************************)
(* Pipe.close: pipe.input_pipe_open is None or refers to the file opened   *)
(* on the input pipe; close closes that file and forgets it.  The file is  *)
(* "absent" (never opened), "open" or "closed".                            *)
(***************************************************************************)
NoHandle == "None"
OpenHandle == "file"

\* self.input_pipe_open.close()
close_file(handle, file) == IF handle /= NoHandle THEN "closed" ELSE file

close_forgotten(handle) == handle

\* self.input_pipe_open = None
close(handle) == IF handle /= NoHandle THEN NoHandle ELSE handle

(***************************************************************************)
(* Resource binding and environment set-up.                                *)
(***************************************************************************)
\* bind_cpus: list(map(int, cpus.split(","))) raises ValueError unless every
\* element of the mask is an integer
bind_cpus_parses(cpus) ==
    \A i \in 1..Len(SplitOn(cpus, ",")) : IsIntStr(SplitOn(cpus, ",")[i])

cpus_map(cpus) ==
    [i \in 1..Len(SplitOn(cpus, ",")) |-> IntOfStr(SplitOn(cpus, ",")[i])]

bind_cpus(e, cpus) == SetEnv(e, "COMPSS_BINDED_CPUS", cpus)

\* OMP_NUM_THREADS is left out
setup_environment_without_omp(e, cn, cn_names, cu) ==
    SetEnv(SetEnv(SetEnv(e, "COMPSS_NUM_NODES", StrOfInt(cn)),
                  "COMPSS_HOSTNAMES", cn_names),
           "COMPSS_NUM_THREADS", cu)

bind_gpus(e, gpus) ==
    SetEnv(SetEnv(SetEnv(e, "COMPSS_BINDED_GPUS", gpus),
                  "CUDA_VISIBLE_DEVICES", gpus),
           "GPU_DEVICE_ORDINAL", gpus)

setup_environment(e, cn, cn_names, cu) ==
    SetEnv(SetEnv(SetEnv(SetEnv(e, "COMPSS_NUM_NODES", StrOfInt(cn)),
                         "COMPSS_HOSTNAMES", cn_names),
                  "COMPSS_NUM_THREADS", cu),
           "OMP_NUM_THREADS", cu)

\* clean_environment raises KeyError when it deletes a variable that is not set
clean_environment_raises(e, cpus, gpus) ==
    \/ gpus /= SENTINEL /\ ~(BindingVarsGpu \subseteq DOMAIN e)
    \/ "COMPSS_HOSTNAMES" \notin DOMAIN e

clean_environment_keeps_hostnames(e, cpus, gpus) ==
    LET e1 == IF cpus /= SENTINEL /\ "COMPSS_BINDED_CPUS" \in DOMAIN e
              THEN DelEnv(e, "COMPSS_BINDED_CPUS") ELSE e
    IN  IF gpus /= SENTINEL
        THEN DelEnv(DelEnv(DelEnv(e1, "COMPSS_BINDED_GPUS"),
                           "CUDA_VISIBLE_DEVICES"), "GPU_DEVICE_ORDINAL")
        ELSE e1

clean_environment(e, cpus, gpus) ==
    LET e1 == IF cpus /= SENTINEL /\ "COMPSS_BINDED_CPUS" \in DOMAIN e
              THEN DelEnv(e, "COMPSS_BINDED_CPUS") ELSE e
        e2 == IF gpus /= SENTINEL
              THEN DelEnv(DelEnv(DelEnv(e1, "COMPSS_BINDED_GPUS"),
                                 "CUDA_VISIBLE_DEVICES"), "GPU_DEVICE_ORDINAL")
              ELSE e1
    IN  DelEnv(e2, "COMPSS_HOSTNAMES")

(***************************************************************************)
(* Reply messages.                                                         *)
(***************************************************************************)
\* pycompss.worker.commons.executor.build_return_params_message: the
\* (new_type, new_value) pairs, flattened and separated by spaces
RECURSIVE build_return_params_message(_, _)
build_return_params_message(types, values) ==
    IF types = <<>> \/ values = <<>> THEN <<>>
    ELSE StrOfInt(types[1]) \o SP \o values[1] \o SP
         \o build_return_params_message(Tail(types), Tail(values))

build_successful_message(new_types, new_values, job_id, exit_value) ==
    Join(SP, <<END_TASK_TAG, job_id, StrOfInt(exit_value),
               build_return_params_message(new_types, new_values) \o NL>>)

build_compss_exception_message_verbatim(except_msg, job_id) ==
    Join(SP, <<COMPSS_EXCEPTION_TAG, job_id, except_msg \o NL>>)

build_compss_exception_message(except_msg, job_id) ==
    Join(SP, <<COMPSS_EXCEPTION_TAG, job_id,
               Replace(except_msg, " ", "_") \o NL>>)

build_exception_message(job_id, exit_value) ==
    Join(SP, <<END_TASK_TAG, job_id, StrOfInt(exit_value) \o NL>>)

\* process_task, lines 599-628: the reply chosen from the exit value
build_message(result, job_id) ==
    IF result.exit_value = 0
    THEN build_successful_message(result.new_types, result.new_values,
                                  job_id, result.exit_value)
    ELSE IF result.exit_value = 2
    THEN build_compss_exception_message(result.except_msg, job_id)
    ELSE build_exception_message(job_id, result.exit_value)


(***************************************************************************)
(* State of the executor process.                                          *)
(***************************************************************************)
VARIABLES
    pc,                        \* position of the executor in its body
    alive,                     \* loop variable of the main executor loop
    ret,                       \* outcome of the last process_message call
    nread,                     \* number of commands read so far
    command,                   \* the command being processed
    consumed,                  \* the commands read so far, in order, as
                               \* the token lists they split into
    out_pipe,                  \* what has been written to the output pipe
    queue,                     \* what has been put on the exception queue
    has_queue,                 \* the queue argument is not None
    THREAD_AFFINITY,           \* the thread_affinity module was imported
    env,                       \* os.environ
    affinity,                  \* CPU affinity of the process
    logger,                    \* handlers of the process logger
    storage_loggers,           \* handlers of each storage logger
    logger_handlers,           \* copy of logger.handlers taken at start
    logger_level,              \* effective level of the logger at start
    storage_loggers_handlers,  \* copies of the storage loggers' handlers
    task,                      \* local variables of process_task
    input_pipe_open,           \* pipe.input_pipe_open
    input_file                 \* state of the file opened on the input pipe

executor_vars ==
    <<pc, alive, ret, nread, command, consumed, out_pipe, queue,
      has_queue, THREAD_AFFINITY, env, affinity, logger, storage_loggers,
      logger_handlers, logger_level, storage_loggers_handlers, task,
      input_pipe_open, input_file>>

(***************************************************************************)
(* State of a call of get_compss_type (pycompss/runtime/task/parameter.py) *)
(* and of the interpreter it runs in.                                      *)
(***************************************************************************)
VARIABLES
    IS_PYTHON3,                \* the interpreter is Python 3
    PYTHON_MAX_INT,            \* sys.maxsize (sys.maxint in Python 2)
    np,                        \* numpy could be imported
    value,                     \* argument of get_compss_type
    depth,                     \* argument of get_compss_type
    compss_type                \* what the call returned

type_vars == <<IS_PYTHON3, PYTHON_MAX_INT, np, value, depth, compss_type>>

(***************************************************************************)
(* State of the parameter records (pycompss/runtime/task/parameter.py):    *)
(* Parameter objects live in a heap and are referred to by their position  *)
(* in it, so that two references to one object can be told from two equal  *)
(* objects.                                                                *)
(***************************************************************************)
VARIABLES
    key,                       \* the alias the caller works with
    objects,                   \* the Parameter objects created so far
    d,                         \* the dictionary given by the caller
    results                    \* the calls made so far and what they returned

param_vars == <<key, objects, d, results>>

(***************************************************************************)
(* State of a decorated function (pycompss/api/mpmd_mpi.py, http.py): the  *)
(* decorator instances stacked on it, and the call that goes through       *)
(* their wrappers.  CE objects live in a heap and are referred to by their *)
(* position in it.                                                         *)
(***************************************************************************)
VARIABLES
    context,                   \* pycompss.util.context as the wrappers see it
    decorators,                \* the decorator instances, outermost first
    core_elements,             \* the CE objects created so far
    call_kwargs,               \* kwargs of the call in the wrapper that runs
    frame,                     \* the wrapper that runs next (0: no call)
    invocations,               \* calls of the decorated function so far
    FORCED_SERIALIZER,         \* serializer.FORCED_SERIALIZER
    configurations,            \* the core element configurations so far
    current_core_element       \* pycompss.api.task.current_core_element

ce_vars == <<context, decorators, core_elements, call_kwargs, frame,
             invocations, FORCED_SERIALIZER, configurations,
             current_core_element>>

(***************************************************************************)
(* State of a distributed stream (pycompss/streams/distro_stream.py): the  *)
(* stream object, the requests it has submitted to the streaming client,   *)
(* what it has done with the Kafka connectors and the objects given to it. *)
(***************************************************************************)
VARIABLES
    stream,                    \* the DistroStream object
    requests,                  \* the requests submitted, with their answers
    kafka,                     \* the calls of ODSPublisher and ODSConsumer
    pscos,                     \* the persistent objects given to publish
    stream_calls               \* the calls of the stream's methods so far

stream_vars == <<stream, requests, kafka, pscos, stream_calls>>

\* the delivery of SIGTERM to the executor process
VARIABLES
    sigterm                    \* where and when the signal was delivered

signal_vars == <<sigterm>>

\* a Pipe object exercised on its own
VARIABLES
    pipe,                      \* the fields of the Pipe object
    input_files,               \* the files opened on the input pipe, in order
    output_pipe,               \* what has been written to the output pipe
    pipe_calls                 \* the calls made so far, with what they did

pipe_vars == <<pipe, input_files, output_pipe, pipe_calls>>

\* the start and the end of the executor: storage hooks and streaming client
VARIABLES
    stream_backend,            \* conf.stream_backend
    storage_conf,              \* conf.storage_conf
    storage_api,               \* storage.api has the post-fork hooks
    client_starts,             \* init_and_start returns (it raises otherwise)
    streaming,                 \* local variable streaming of executor
    events                     \* the hooks and client calls made, in order

boot_conf == <<stream_backend, storage_conf, storage_api, client_starts>>

boot_vars == <<boot_conf, streaming, events>>

\* the variables of the modules the executor does not touch
elsewhere == <<type_vars, param_vars, ce_vars, stream_vars, signal_vars, pipe_vars, boot_vars>>

\* the variables get_compss_type, the parameter records and the decorators
\* leave alone
beside_type == <<executor_vars, param_vars, ce_vars, stream_vars, signal_vars, pipe_vars, boot_vars>>
beside_param == <<executor_vars, type_vars, ce_vars, stream_vars, signal_vars, pipe_vars, boot_vars>>
beside_ce == <<executor_vars, type_vars, param_vars, stream_vars, signal_vars, pipe_vars, boot_vars>>
beside_stream == <<executor_vars, type_vars, param_vars, ce_vars, signal_vars, pipe_vars, boot_vars>>
beside_pipe == <<executor_vars, type_vars, param_vars, ce_vars, stream_vars, signal_vars, boot_vars>>

vars == <<executor_vars, elsewhere>>

conf == <<has_queue, THREAD_AFFINITY, logger_handlers, logger_level,
          storage_loggers_handlers>>

NoTask ==
    [current_line |-> <<>>, affinity_ok |-> TRUE, binded_cpus |-> FALSE,
     binded_gpus |-> FALSE, cpus |-> SENTINEL, gpus |-> SENTINEL,
     job_id |-> <<>>,
     out_file_handler |-> FileHandler(<<>>, "NOTSET"),
     err_file_handler |-> FileHandler(<<>>, "NOTSET"),
     result |-> NoResult, message |-> <<>>,
     env_before |-> EmptyEnv, warned |-> FALSE, dispatcher_args |-> <<>>,
     bind_cpus_called |-> FALSE, trace |-> <<>>]

ExecutorInit ==
    /\ pc = "starting"
    /\ alive = TRUE
    /\ ret = "none"
    /\ nread = 0
    /\ command = <<>>
    /\ consumed = <<>>
    /\ out_pipe = <<>>
    /\ queue = <<>>
    /\ has_queue \in BOOLEAN
    /\ THREAD_AFFINITY \in BOOLEAN
    /\ env \in {EmptyEnv, InheritedEnv}
    /\ affinity = DefaultAffinity
    /\ logger = [i \in 1..MaxHandlers |-> StreamHandler("worker", i)]
    /\ storage_loggers =
          <<[i \in 1..MaxHandlers |-> StreamHandler("storage", i)]>>
    /\ logger_handlers = <<>>
    /\ logger_level = "DEBUG"
    /\ storage_loggers_handlers = <<>>
    /\ task = NoTask
    /\ input_pipe_open \in {NoHandle, OpenHandle}
    /\ input_file = IF input_pipe_open = NoHandle THEN "absent" ELSE "open"

\* the executor as it is while another module is exercised
ExecutorIdle ==
    /\ ExecutorInit
    /\ ~has_queue
    /\ ~THREAD_AFFINITY
    /\ env = EmptyEnv
    /\ input_pipe_open = NoHandle

\* no call of get_compss_type is under way
NoTypeCall ==
    /\ IS_PYTHON3 = TRUE
    /\ PYTHON_MAX_INT = <<0, 0, 0>>
    /\ np = FALSE
    /\ value = "none"
    /\ depth = 0
    /\ compss_type = "none"

\* no parameter record has been asked for
NoParamCall ==
    /\ key = "IN"
    /\ objects = <<>>
    /\ d = <<>>
    /\ results = <<>>

\* no decorated function has been called
NoDecoratedCall ==
    /\ context = [scope |-> FALSE, in_master |-> FALSE, nesting |-> FALSE]
    /\ decorators = <<>>
    /\ core_elements = <<>>
    /\ call_kwargs = <<>>
    /\ frame = 0
    /\ invocations = 0
    /\ FORCED_SERIALIZER = -1
    /\ configurations = <<>>
    /\ current_core_element = NoneObject

\* no stream has been constructed
NoStreamCall ==
    /\ stream = [stream_type |-> "none"]
    /\ requests = <<>>
    /\ kafka = <<>>
    /\ pscos = <<>>
    /\ stream_calls = <<>>

\* no SIGTERM has been delivered
NoSignal == sigterm = [at |-> "none"]

\* no Pipe is exercised on its own
NoPipeCall ==
    /\ pipe = [input_pipe_open |-> NoHandle]
    /\ input_files = <<>>
    /\ output_pipe = <<>>
    /\ pipe_calls = <<>>

\* an executor without persistent storage and without streaming
NoBoot ==
    /\ stream_backend = NoneObject
    /\ storage_conf = <<"null">>
    /\ storage_api = FALSE
    /\ client_starts = TRUE
    /\ streaming = FALSE
    /\ events = <<>>

Init ==
    /\ ExecutorInit
    /\ NoBoot
    /\ NoPipeCall
    /\ NoSignal
    /\ NoStreamCall
    /\ NoTypeCall
    /\ NoParamCall
    /\ NoDecoratedCall

(***************************************************************************)
(* executor, lines 248-317: the handlers of the loggers are copied once,   *)
(* the post-fork hook of the storage is called if storage is configured,   *)
(* and the streaming client is started if a stream backend is configured.  *)
(* An exception of init_and_start is logged and raised again (lines        *)
(* 302-304) and then once more by the except clause of executor.           *)
(***************************************************************************)
\* a call made at the start or at the end of the executor, with how many
\* commands had been read and how many replies written when it was made
Event(what) ==
    [what |-> what, nread |-> nread, written |-> Len(out_pipe),
     loop_ended |-> ~alive]

\* lines 281-289 and 347-356: the hook is called if storage is configured;
\* ImportError and AttributeError are logged at info level and ignored
storage_hook(hook) ==
    IF storage_conf /= <<"null">>
    THEN IF storage_api THEN <<Event(hook)>> ELSE <<Event("info")>>
    ELSE <<>>

\* streaming whenever a backend is given at all
streaming_unless_none(backend) == backend /= NoneObject

\* lines 292-294: conf.stream_backend not in [None, "null", "NONE"]
is_streaming(backend) ==
    backend \notin {NoneObject, String(<<"null">>), String(<<"NONE">>)}

\* the exception of init_and_start is not logged
start_streaming_quietly ==
    IF is_streaming(stream_backend) THEN <<Event("init_and_start")>> ELSE <<>>

\* lines 296-304
start_streaming ==
    IF is_streaming(stream_backend)
    THEN <<Event("init_and_start")>>
         \o (IF client_starts THEN <<>> ELSE <<Event("error")>>)
    ELSE <<>>

\* the client is stopped whether or not it was started
stop_streaming_always(started) == <<Event("set_stop")>>

\* lines 358-362
stop_streaming(started) == IF started THEN <<Event("set_stop")>> ELSE <<>>

bootstrap ==
    /\ pc = "starting"
    /\ logger_handlers' = logger
    /\ storage_loggers_handlers' = storage_loggers
    /\ events' = events \o storage_hook("initWorkerPostFork")
                        \o start_streaming
    /\ streaming' = is_streaming(stream_backend)
    /\ pc' = IF is_streaming(stream_backend) /\ ~client_starts
             THEN "raised" ELSE "running"
    /\ UNCHANGED <<alive, ret, nread, command, consumed, out_pipe, queue,
                   has_queue, THREAD_AFFINITY, env, affinity, logger, storage_loggers,
                   logger_level, task, input_pipe_open, input_file>>
    /\ UNCHANGED <<type_vars, param_vars, ce_vars, stream_vars, signal_vars,
                   pipe_vars, boot_conf>>

(***************************************************************************)
(* executor, lines 320-323: read a command; the empty string is skipped.   *)
(***************************************************************************)
read_pipes ==
    /\ pc = "running"
    /\ alive
    /\ nread < MaxCommands
    /\ \E c \in Commands \cup {<<>>} :
          IF c = <<>>
          THEN UNCHANGED <<pc, nread, command, consumed>>
          ELSE /\ command' = c
               /\ consumed' = Append(consumed, Split(c))
               /\ nread' = nread + 1
               /\ pc' = "message"
    /\ UNCHANGED <<alive, ret, out_pipe, queue, env, affinity, logger, storage_loggers,
                   task>>
    /\ UNCHANGED conf
    /\ UNCHANGED elsewhere
    /\ UNCHANGED <<input_pipe_open, input_file>>

\* process_message, line 417-418: the tag of a line
Tag(line) == At(Split(line), 0)

\* process_message, line 417: current_line, the tokens of the command in hand
Current == consumed[Len(consumed)]

(***************************************************************************)
(* process_ping, lines 701-719.                                            *)
(***************************************************************************)
process_ping_twice ==
    /\ pc = "message"
    /\ At(Current, 0) = PING_TAG
    /\ out_pipe' = write(write(out_pipe, PONG_TAG), PONG_TAG)
    /\ ret' = "True"
    /\ pc' = "running"
    /\ UNCHANGED <<alive, nread, command, consumed, queue, env, affinity,
                   logger, storage_loggers, task>>
    /\ UNCHANGED conf
    /\ UNCHANGED elsewhere
    /\ UNCHANGED <<input_pipe_open, input_file>>

process_ping ==
    /\ pc = "message"
    /\ At(Current, 0) = PING_TAG
    /\ out_pipe' = write(out_pipe, PONG_TAG)
    /\ ret' = "True"
    /\ pc' = "running"
    /\ UNCHANGED <<alive, nread, command, consumed, queue, env, affinity, logger,
                   storage_loggers, task>>
    /\ UNCHANGED conf
    /\ UNCHANGED elsewhere
    /\ UNCHANGED <<input_pipe_open, input_file>>

(***************************************************************************)
(* process_quit, lines 722-735: the loop variable becomes false.           *)
(***************************************************************************)
process_quit ==
    /\ pc = "message"
    /\ At(Current, 0) = QUIT_TAG
    /\ ret' = "False"
    /\ alive' = FALSE
    /\ pc' = "teardown"
    /\ UNCHANGED <<nread, command, consumed, out_pipe, queue, env, affinity, logger,
                   storage_loggers, task>>
    /\ UNCHANGED conf
    /\ UNCHANGED elsewhere
    /\ UNCHANGED <<input_pipe_open, input_file>>

(***************************************************************************)
(* process_message, lines 442-446, and executor, lines 371-373: an unknown *)
(* tag raises PyCOMPSsException, which executor logs and raises again.     *)
(***************************************************************************)
unexpected_message ==
    /\ pc = "message"
    /\ At(Current, 0) \notin {EXECUTE_TASK_TAG, PING_TAG, QUIT_TAG}
    /\ ret' = "raised"
    /\ pc' = "raised"
    /\ UNCHANGED <<alive, nread, command, consumed, out_pipe, queue, env, affinity,
                   logger, storage_loggers, task>>
    /\ UNCHANGED conf
    /\ UNCHANGED elsewhere
    /\ UNCHANGED <<input_pipe_open, input_file>>


(***************************************************************************)
(* process_task, lines 486-557: CPU and GPU binding, removal of the last   *)
(* three tokens, and swap of the loggers to the job files.  An exception   *)
(* raised here is outside the try block: it leaves process_task and is     *)
(* raised again by executor.                                               *)
(***************************************************************************)
\* emit_manual_event(value, inside=True, <kind>=True)
emit_manual_event(event_value, kind) == [kind |-> kind, value |-> event_value]

\* the CPU events are emitted whether or not the backend is there
cpu_events_always(backend, real_affinity) ==
    <<emit_manual_event(real_affinity[1], "cpu_affinity"),
      emit_manual_event(Len(real_affinity), "cpu_number")>>

\* lines 561-568: the events of the affinity found after the binding
cpu_events(backend, real_affinity) ==
    IF backend
    THEN <<emit_manual_event(real_affinity[1], "cpu_affinity"),
           emit_manual_event(Len(real_affinity), "cpu_number")>>
    ELSE <<>>

\* lines 666-670: the events that end the binding of the task
end_events(binded_cpus, binded_gpus) ==
    (IF binded_cpus
     THEN <<emit_manual_event(0, "cpu_affinity"),
            emit_manual_event(0, "cpu_number")>>
     ELSE <<>>)
    \o (IF binded_gpus THEN <<emit_manual_event(0, "gpu_affinity")>>
        ELSE <<>>)

process_task_bind ==
    /\ pc = "message"
    /\ At(Current, 0) = EXECUTE_TASK_TAG
    /\ LET line == Current
           cpus == At(line, -3)
           gpus == At(line, -2)
           cpu_bind == cpus /= SENTINEL /\ THREAD_AFFINITY
           env1 == IF cpu_bind THEN bind_cpus(env, cpus) ELSE env
           env2 == IF gpus /= SENTINEL THEN bind_gpus(env1, gpus) ELSE env1
           stripped == Slice(line, 0, Len(line) - 3)
           out_h == FileHandler(At(stripped, 2), logger_level)
           err_h == FileHandler(At(stripped, 3), "ERROR")
       IN
       IF cpu_bind /\ ~bind_cpus_parses(cpus)
       THEN \* ValueError in bind_cpus
            /\ env' = env1
            /\ task' = NoTask
            /\ ret' = "raised"
            /\ pc' = "raised"
            /\ UNCHANGED <<affinity, logger, storage_loggers>>
       ELSE \E set_ok \in (IF cpu_bind THEN BOOLEAN ELSE {TRUE}) :
            \* set_ok: thread_affinity.setaffinity did not raise
            /\ affinity' = IF cpu_bind /\ set_ok THEN cpus_map(cpus)
                           ELSE affinity
            /\ IF gpus /= SENTINEL /\ ~IsIntStr(gpus)
               THEN \* ValueError in int(gpus), line 502
                    /\ env' = env1
                    /\ task' = NoTask
                    /\ ret' = "raised"
                    /\ pc' = "raised"
                    /\ UNCHANGED <<logger, storage_loggers>>
               ELSE /\ env' = env2
                    /\ logger' = addHandler(addHandler(
                                     removeAll(logger, logger_handlers),
                                     out_h), err_h)
                    /\ storage_loggers' =
                         [i \in 1..Len(storage_loggers) |->
                            addHandler(addHandler(
                                removeWhileIterating(storage_loggers[i], 1),
                                out_h), err_h)]
                    /\ task' = [NoTask EXCEPT
                                  !.current_line = stripped,
                                  !.affinity_ok = set_ok,
                                  !.binded_gpus = (gpus /= SENTINEL),
                                  !.cpus = cpus,
                                  !.gpus = gpus,
                                  !.job_id = At(stripped, 1),
                                  !.out_file_handler = out_h,
                                  !.err_file_handler = err_h,
                                  !.env_before = env,
                                  !.bind_cpus_called = cpu_bind,
                                  !.trace =
                                     IF gpus /= SENTINEL
                                     THEN <<emit_manual_event(
                                              IntOfStr(gpus), "gpu_affinity")>>
                                     ELSE <<>>]
                    /\ ret' = "none"
                    /\ pc' = "task_try"
    /\ UNCHANGED <<alive, nread, command, consumed, out_pipe, queue>>
    /\ UNCHANGED conf
    /\ UNCHANGED elsewhere
    /\ UNCHANGED <<input_pipe_open, input_file>>

(***************************************************************************)
(* process_task, lines 559-583: affinity check and set-up of the process   *)
(* environment; after this step the dispatcher runs.                       *)
(***************************************************************************)
\* no warning is logged
warns_never(affinity_ok) == FALSE

\* lines 570-572: logger.warning for a task whose affinity could not be set
warns(affinity_ok) == ~affinity_ok

process_task_setup ==
    /\ pc = "task_try"
    /\ LET line == task.current_line
           cn == IntOfStr(At(line, 12))
           cn_names == Join(<<",">>, Slice(line, 13, 13 + cn))
           cu == At(line, 13 + cn)
       IN
       /\ env' = setup_environment(env, cn, cn_names, cu)
       /\ task' = [task EXCEPT
                     !.cpus = IF THREAD_AFFINITY THEN StrOfInt(affinity[1])
                              ELSE @,
                     !.binded_cpus = THREAD_AFFINITY,
                     !.warned = THREAD_AFFINITY /\ warns(task.affinity_ok),
                     !.dispatcher_args = Slice(line, 9, Len(line)),
                     !.trace = @ \o cpu_events(THREAD_AFFINITY, affinity)]
    /\ pc' = "dispatch"
    /\ UNCHANGED <<alive, ret, nread, command, consumed, out_pipe, queue,
                   affinity, logger, storage_loggers>>
    /\ UNCHANGED conf
    /\ UNCHANGED elsewhere
    /\ UNCHANGED <<input_pipe_open, input_file>>

(***************************************************************************)
(* process_task, lines 585-660: the dispatcher returns and the reply is    *)
(* built, or an exception is caught: "EXCEPTION" is put on the queue (if   *)
(* there is one) and process_task returns False.                           *)
(***************************************************************************)
try_block_raises_on_failure(outcome) == outcome.raised \/ outcome.exit_value /= 0

\* the except clause is never entered
try_block_swallows(outcome) == FALSE

try_block_raises(outcome) == outcome.raised

execute_task ==
    /\ pc = "dispatch"
    /\ \E outcome \in DispatcherOutcomes :
          IF try_block_raises(outcome)
          THEN /\ queue' = IF has_queue THEN Append(queue, "EXCEPTION")
                           ELSE queue
               /\ ret' = "False"
               /\ alive' = FALSE
               /\ pc' = "teardown"
               /\ task' = [task EXCEPT !.result = outcome]
          ELSE /\ task' = [task EXCEPT
                             !.result = outcome,
                             !.message = build_message(outcome, task.job_id)]
               /\ pc' = "task_clean"
               /\ UNCHANGED <<queue, ret, alive>>
    /\ UNCHANGED <<nread, command, consumed, out_pipe, env, affinity, logger,
                   storage_loggers>>
    /\ UNCHANGED conf
    /\ UNCHANGED elsewhere
    /\ UNCHANGED <<input_pipe_open, input_file>>

(***************************************************************************)
(* process_task, lines 662-690: clean the environment and restore the      *)
(* loggers.  A KeyError of clean_environment is outside the try block.     *)
(***************************************************************************)
process_task_clean_skipped ==
    /\ pc = "task_clean"
    /\ pc' = "task_reply"
    /\ UNCHANGED <<alive, ret, nread, command, consumed, out_pipe, queue, env,
                   affinity, logger, storage_loggers, task>>
    /\ UNCHANGED conf
    /\ UNCHANGED elsewhere
    /\ UNCHANGED <<input_pipe_open, input_file>>

process_task_clean ==
    /\ pc = "task_clean"
    /\ IF clean_environment_raises(env, task.cpus, task.gpus)
       THEN /\ ret' = "raised"
            /\ pc' = "raised"
            /\ UNCHANGED <<env, logger, storage_loggers, task>>
       ELSE /\ env' = clean_environment(env, task.cpus, task.gpus)
            /\ task' = [task EXCEPT
                          !.trace = @ \o end_events(task.binded_cpus,
                                                    task.binded_gpus)]
            /\ logger' = addAll(<<>>, logger_handlers)
            /\ storage_loggers' =
                 [i \in 1..Len(storage_loggers) |->
                    addAll(<<>>, storage_loggers_handlers[i])]
            /\ pc' = "task_reply"
            /\ UNCHANGED ret
    /\ UNCHANGED <<alive, nread, command, consumed, out_pipe, queue,
                   affinity>>
    /\ UNCHANGED conf
    /\ UNCHANGED elsewhere
    /\ UNCHANGED <<input_pipe_open, input_file>>

(***************************************************************************)
(* process_task, lines 695-698: write the reply and return True.           *)
(***************************************************************************)
process_task_reply ==
    /\ pc = "task_reply"
    /\ out_pipe' = write(out_pipe, task.message)
    /\ ret' = "True"
    /\ pc' = "running"
    /\ UNCHANGED <<alive, nread, command, consumed, queue, env, affinity,
                   logger, storage_loggers, task>>
    /\ UNCHANGED conf
    /\ UNCHANGED elsewhere
    /\ UNCHANGED <<input_pipe_open, input_file>>

(***************************************************************************)
(* executor, lines 346-370: after the loop, the storage hook is called,    *)
(* the streaming client is stopped if it was started, the QUIT reply is    *)
(* written and the pipe is closed.                                         *)
(***************************************************************************)
teardown ==
    /\ pc = "teardown"
    /\ ~alive
    /\ events' = events \o storage_hook("finishWorkerPostFork")
                        \o stop_streaming(streaming)
    /\ out_pipe' = write(out_pipe, QUIT_TAG)
    /\ input_file' = close_file(input_pipe_open, input_file)
    /\ input_pipe_open' = close(input_pipe_open)
    /\ pc' = "exited"
    /\ UNCHANGED <<alive, ret, nread, command, consumed, queue, env,
                   affinity, logger, storage_loggers, task>>
    /\ UNCHANGED conf
    /\ UNCHANGED <<type_vars, param_vars, ce_vars, stream_vars, signal_vars,
                   pipe_vars, boot_conf, streaming>>

Next ==
    \/ bootstrap
    \/ read_pipes
    \/ process_ping
    \/ process_quit
    \/ unexpected_message
    \/ process_task_bind
    \/ process_task_setup
    \/ execute_task
    \/ process_task_clean
    \/ process_task_reply
    \/ teardown

Spec == Init /\ [][Next]_vars

\* the configurations of storage and streaming an executor is started with
StreamBackends ==
    {NoneObject, String(<<"null">>), String(<<"NONE">>), String(<<"None">>),
     String(<<"OBJECTS">>)}

BootInit ==
    /\ ExecutorIdle
    /\ NoPipeCall
    /\ NoSignal
    /\ NoStreamCall
    /\ NoTypeCall
    /\ NoParamCall
    /\ NoDecoratedCall
    /\ stream_backend \in StreamBackends
    /\ storage_conf \in {<<"null">>, <<"/storage.cfg">>}
    /\ storage_api \in BOOLEAN
    /\ client_starts \in BOOLEAN
    /\ streaming = FALSE
    /\ events = <<>>

SpecBoot == BootInit /\ [][Next]_vars

TypeOK ==
    /\ pc \in {"starting", "running", "message", "task_try", "dispatch",
               "task_clean", "task_reply", "teardown", "exited", "raised"}
    /\ alive \in BOOLEAN
    /\ ret \in {"none", "True", "False", "raised"}
    /\ nread \in 0..MaxCommands
    /\ Len(consumed) = nread
    /\ DOMAIN env \subseteq EnvVars
    /\ input_pipe_open \in {NoHandle, OpenHandle}
    /\ input_file \in {"absent", "open", "closed"}


(***************************************************************************)
(* Vocabulary of the properties.  A command is taken as the token list it  *)
(* splits into, a reply as the text written to the output pipe.            *)
(***************************************************************************)
IsTaskCmd(c) == At(c, 0) = EXECUTE_TASK_TAG

IsPingCmd(c) == At(c, 0) = PING_TAG

JobOf(c) == At(c, 1)

CpuMask(c) == At(c, -3)

GpuMask(c) == At(c, -2)

TaskReplyTags == {END_TASK_TAG, COMPSS_EXCEPTION_TAG}

IsTaskReply(m) == Tag(m) \in TaskReplyTags

NumTaskReplies == Cardinality({i \in 1..Len(out_pipe) : IsTaskReply(out_pipe[i])})

NumTasksIn(cs) == Cardinality({i \in 1..Len(cs) : IsTaskCmd(cs[i])})

\* the command in hand is an EXECUTE_TASK whose reply has just been written
TaskAnswered ==
    /\ pc = "running"
    /\ ret = "True"
    /\ nread > 0
    /\ IsTaskCmd(Current)

\* the replies to commands: everything on the output pipe but the final QUIT
Replies ==
    IF pc = "exited" THEN SubSeq(out_pipe, 1, Len(out_pipe) - 1) ELSE out_pipe

(***************************************************************************)
(* C1: for every EXECUTE_TASK consumed, exactly one reply tagged endTask   *)
(* or compssExceptionTask is on the output pipe before the next command is *)
(* read: when a command has just been read, and when the executor is about *)
(* to read, every earlier EXECUTE_TASK has its one reply; there is never   *)
(* more than one reply per EXECUTE_TASK.                                   *)
(***************************************************************************)
C1_OneReplyBeforeNextRead ==
    /\ NumTaskReplies <= NumTasksIn(consumed)
    /\ pc = "running" => NumTaskReplies = NumTasksIn(consumed)
    /\ pc = "message" =>
         NumTaskReplies = NumTasksIn(SubSeq(consumed, 1, Len(consumed) - 1))

C1_Witness ==
    /\ pc = "message"
    /\ Len(consumed) = 3
    /\ IsTaskCmd(consumed[1])
    /\ IsTaskCmd(consumed[2])
    /\ NumTaskReplies = 2

(***************************************************************************)
(* C2: commands are processed in arrival order: the i-th reply on the      *)
(* output pipe answers the i-th command read (PONG for PING, a task reply  *)
(* with the same job id for EXECUTE_TASK), and a command is read only when *)
(* all the commands before it have their reply.                            *)
(***************************************************************************)
Answers(m, c) ==
    IF IsPingCmd(c) THEN Split(m) = <<PONG_TAG>>
    ELSE IF IsTaskCmd(c)
         THEN IsTaskReply(m) /\ At(Split(m), 1) = JobOf(c)
         ELSE FALSE

C2_RepliesInArrivalOrder ==
    /\ Len(Replies) <= Len(consumed)
    /\ \A i \in 1..Len(Replies) : Answers(Replies[i], consumed[i])
    /\ pc = "running" => Len(Replies) = Len(consumed)
    /\ pc = "message" => Len(Replies) = Len(consumed) - 1

C2_Witness ==
    /\ pc = "running"
    /\ Len(consumed) = 3
    /\ Len(out_pipe) = 3
    /\ \E i, j, k \in 1..3 :
          /\ i < j
          /\ IsTaskCmd(consumed[i]) /\ JobOf(consumed[i]) = <<"43">>
          /\ IsTaskCmd(consumed[j]) /\ JobOf(consumed[j]) = <<"42">>
          /\ IsPingCmd(consumed[k])


(***************************************************************************)
(* C3: the reply written for a task is determined by the exit value the    *)
(* dispatcher returned: 0 gives the tokens endTask, job id, 0 and then the *)
(* (new_type, new_value) pairs; 2 gives compssExceptionTask, job id and    *)
(* the exception message with each space replaced by an underscore; any    *)
(* other value v gives endTask, job id, v and nothing else.                *)
(***************************************************************************)
RECURSIVE PairTokens(_, _)
PairTokens(types, values) ==
    IF types = <<>> \/ values = <<>> THEN <<>>
    ELSE <<StrOfInt(types[1]), values[1]>>
         \o PairTokens(Tail(types), Tail(values))

Underscored(msg) == [i \in 1..Len(msg) |-> IF msg[i] = " " THEN "_" ELSE msg[i]]

ExpectedReplyTokens(result, job) ==
    IF result.exit_value = 0
    THEN <<<<"endTask">>, job, <<"0">>>>
         \o PairTokens(result.new_types, result.new_values)
    ELSE IF result.exit_value = 2
    THEN <<<<"compssExceptionTask">>, job, Underscored(result.except_msg)>>
    ELSE <<<<"endTask">>, job, StrOfInt(result.exit_value)>>

DispatcherFailed ==
    /\ nread > 0
    /\ IsTaskCmd(Current)
    /\ pc \notin {"message", "task_try", "dispatch"}
    /\ ~task.result.raised
    /\ task.result.exit_value /= 0

C4_FailedTaskKeepsLoop ==
    DispatcherFailed =>
        /\ pc \in {"task_clean", "task_reply", "running"}
        /\ alive
        /\ queue = <<>>
        /\ ret /= "False"
        /\ pc = "running" => ret = "True"

\* a domain exception and an unexpected exception were answered, and the
\* command after them was processed as well
C4_Witness ==
    /\ pc = "running"
    /\ alive
    /\ queue = <<>>
    /\ Len(out_pipe) = 3
    /\ Tag(out_pipe[1]) = COMPSS_EXCEPTION_TAG
    /\ Split(out_pipe[2]) = <<END_TASK_TAG, <<"42">>, <<"7">>>>
    /\ Split(out_pipe[3]) = <<PONG_TAG>>

(***************************************************************************)
(* C5: when the command's first token is none of EXECUTE_TASK, PING and    *)
(* QUIT, "EXCEPTION" is posted to the supervisor queue and the executor    *)
(* terminates with an error.                                               *)
(***************************************************************************)
UnknownCommandProcessed ==
    /\ nread > 0
    /\ At(Current, 0) \notin {EXECUTE_TASK_TAG, PING_TAG, QUIT_TAG}
    /\ pc /= "message"

C5_UnknownCommandPostsException ==
    UnknownCommandProcessed =>
        /\ pc = "raised"
        /\ has_queue => queue = <<"EXCEPTION">>

(***************************************************************************)
(* C6: any exception raised during the processing of an EXECUTE_TASK       *)
(* (binding, logger reconfiguration, set-up, dispatcher, reply building)   *)
(* puts "EXCEPTION" on the supervisor queue and makes process_task return  *)
(* False.                                                                  *)
(***************************************************************************)
TaskProcessingFailed ==
    /\ nread > 0
    /\ IsTaskCmd(Current)
    /\ ret \in {"False", "raised"}

C6_TaskExceptionPostedAndFalse ==
    TaskProcessingFailed =>
        /\ ret = "False"
        /\ ~alive
        /\ has_queue => queue = <<"EXCEPTION">>


(***************************************************************************)
(* C7: after the processing of an EXECUTE_TASK ends with its reply,        *)
(* whatever the exit value, COMPSS_BINDED_CPUS, COMPSS_BINDED_GPUS,        *)
(* CUDA_VISIBLE_DEVICES, GPU_DEVICE_ORDINAL and COMPSS_HOSTNAMES are       *)
(* absent from the environment.                                            *)
(***************************************************************************)
ResourceVars == BindingVarsCpu \cup BindingVarsGpu \cup {"COMPSS_HOSTNAMES"}

C8_AllTaskVarsUnset ==
    TaskAnswered =>
        /\ SetupVars \cap DOMAIN env = {}
        /\ GpuMask(Current) /= SENTINEL => BindingVarsGpu \cap DOMAIN env = {}
        /\ CpuMask(Current) /= SENTINEL => BindingVarsCpu \cap DOMAIN env = {}

(***************************************************************************)
(* C9: task processing unsets exactly the binding variables it set: with   *)
(* CPU mask "-" a COMPSS_BINDED_CPUS already in the environment is left    *)
(* as it was, with GPU mask "-" the three GPU variables are left as they   *)
(* were, and COMPSS_HOSTNAMES is always unset.                             *)
(***************************************************************************)
LeftAsBefore(v) ==
    v \in DOMAIN task.env_before =>
        v \in DOMAIN env /\ env[v] = task.env_before[v]

C9_SentinelLeavesBindingVars ==
    TaskAnswered =>
        /\ CpuMask(Current) = SENTINEL =>
              \A v \in BindingVarsCpu : LeftAsBefore(v)
        /\ GpuMask(Current) = SENTINEL =>
              \A v \in BindingVarsGpu : LeftAsBefore(v)
        /\ "COMPSS_HOSTNAMES" \notin DOMAIN env

(***************************************************************************)
(* C10: processing a PING writes exactly one PONG line, returns True so    *)
(* that the executor goes back to reading, and leaves the environment and  *)
(* the handlers of the process logger and of the storage loggers as they   *)
(* were.                                                                   *)
(***************************************************************************)
PingInHand == pc = "message" /\ Tag(command) = PING_TAG

IsQuitCmd(c) == At(c, 0) = QUIT_TAG

QuitProcessed ==
    /\ nread > 0
    /\ IsQuitCmd(Current)
    /\ pc /= "message"

QuitReplies == {i \in 1..Len(out_pipe) : Split(out_pipe[i]) = <<QUIT_TAG>>}

C11_QuitEndsExecutor ==
    /\ \A i \in 1..(Len(consumed) - 1) : ~IsQuitCmd(consumed[i])
    /\ QuitProcessed =>
          /\ pc \in {"teardown", "exited"}
          /\ ~alive
          /\ ret = "False"
          /\ NumTaskReplies = NumTasksIn(consumed)
          /\ Len(Replies) = Len(consumed) - 1
          /\ pc = "teardown" => QuitReplies = {}
          /\ pc = "exited" =>
                /\ out_pipe[Len(out_pipe)] = <<"QUIT", "\n">>
                /\ QuitReplies = {Len(out_pipe)}
                /\ input_pipe_open = NoHandle
                /\ input_file /= "open"

\* QUIT came after an answered task and an answered PING, the QUIT reply was
\* written and the file that was open on the input pipe is closed
C11_Witness ==
    /\ pc = "exited"
    /\ Len(consumed) = 3
    /\ IsTaskCmd(consumed[1])
    /\ IsPingCmd(consumed[2])
    /\ IsQuitCmd(consumed[3])
    /\ Len(out_pipe) = 3
    /\ out_pipe[3] = <<"QUIT", "\n">>
    /\ input_file = "closed"
    /\ input_pipe_open = NoHandle

(***************************************************************************)
(* C12: a step that writes the reply of a task (a line tagged endTask or   *)
(* compssExceptionTask for the job in hand) starts in a state where        *)
(* clean_environment has run for that job (COMPSS_HOSTNAMES, which         *)
(* setup_environment had set, is gone, and so are the GPU variables of a   *)
(* task with a GPU mask) and where the process logger and every storage    *)
(* logger have exactly their snapshotted handlers; the step itself changes *)
(* neither the environment nor the loggers.                                *)
(***************************************************************************)
WritesTaskReply ==
    /\ Len(out_pipe') = Len(out_pipe) + 1
    /\ IsTaskReply(out_pipe'[Len(out_pipe')])

C12_ReplyAfterCleanAndRestore ==
    [][WritesTaskReply =>
         /\ At(Split(out_pipe'[Len(out_pipe')]), 1) = JobOf(Current)
         /\ "COMPSS_HOSTNAMES" \notin DOMAIN env
         /\ GpuMask(Current) /= SENTINEL => BindingVarsGpu \cap DOMAIN env = {}
         /\ logger = logger_handlers
         /\ storage_loggers = storage_loggers_handlers
         /\ ~IsIn(logger, task.out_file_handler)
         /\ ~IsIn(logger, task.err_file_handler)
         /\ env' = env
         /\ logger' = logger
         /\ storage_loggers' = storage_loggers]_vars

\* the reply of a second task with a GPU mask has been written; the set-up
\* of its environment had run (COMPSS_NUM_NODES is still there) and the
\* loggers are the snapshotted ones
C12_Witness ==
    /\ TaskAnswered
    /\ Len(consumed) = 2
    /\ IsTaskCmd(consumed[1])
    /\ GpuMask(Current) = <<"0">>
    /\ "COMPSS_NUM_NODES" \in DOMAIN env
    /\ "COMPSS_HOSTNAMES" \notin DOMAIN env
    /\ logger = logger_handlers
    /\ storage_loggers = storage_loggers_handlers
    /\ Len(logger) = MaxHandlers

(***************************************************************************)
(* C13: when the executor has ended (after teardown, or with an exception  *)
(* raised out of it), the handlers of the process logger and of every      *)
(* storage logger are the ones snapshotted at executor start: no handler   *)
(* accumulated and no job file handler is still attached.                  *)
(***************************************************************************)
ExecutorEnded == pc \in {"exited", "raised"}

C13_HandlersAtEndEqualSnapshot ==
    ExecutorEnded =>
        /\ logger = logger_handlers
        /\ storage_loggers = storage_loggers_handlers

(***************************************************************************)
(* Type inference of the parameter model: get_compss_type                  *)
(* (pycompss/runtime/task/parameter.py).                                   *)
(*                                                                         *)
(* A Python integer is unbounded.  It is written here in base 2^31 as      *)
(* three digits <<d2, d1, d0>>, standing for d2 * 2^62 + d1 * 2^31 + d0    *)
(* with 0 <= d1, d0 < 2^31 and d2 of either sign, so that the order of the *)
(* integers is the lexicographic order of their digits.                    *)
(***************************************************************************)
D31 == 2147483647

Less(a, b) ==
    \/ a[1] < b[1]
    \/ a[1] = b[1] /\ a[2] < b[2]
    \/ a[1] = b[1] /\ a[2] = b[2] /\ a[3] < b[3]

JAVA_MAX_INT == <<0, 0, D31>>
JAVA_MIN_INT == <<-1, D31, 0>>

\* sys.maxsize of a 32-bit and of a 64-bit build, each with -sys.maxsize - 1
Builds == { [maxsize |-> <<0, 0, D31>>, minsize |-> <<-1, D31, 0>>],
            [maxsize |-> <<1, D31, D31>>, minsize |-> <<-2, 0, 0>>] }

\* 0, 1, -1, 2^31 - 1, 2^31, -2^31, -2^31 - 1, 2^40, 2^63 - 2, 2^63 - 1, 2^63
Integers3 ==
    { <<0, 0, 0>>, <<0, 0, 1>>, <<-1, D31, D31>>, <<0, 0, D31>>, <<0, 1, 0>>,
      <<-1, D31, 0>>, <<-1, D31 - 1, D31>>, <<0, 512, 0>>,
      <<1, D31, D31 - 1>>, <<1, D31, D31>>, <<2, 0, 0>> }

TYPE == [BOOLEAN |-> "BOOLEAN", STRING |-> "STRING", INT |-> "INT",
         LONG |-> "LONG", DOUBLE |-> "DOUBLE", FILE |-> "FILE",
         DIRECTORY |-> "DIRECTORY", OBJECT |-> "OBJECT",
         COLLECTION |-> "COLLECTION", EXTERNAL_PSCO |-> "EXTERNAL_PSCO",
         EXTERNAL_STREAM |-> "EXTERNAL_STREAM"]

(***************************************************************************)
(* A Python value: the classes it is an instance of, its number (for an    *)
(* integer or a bool) and what its getID gives: "absent" when the value    *)
(* has no getID, "None", "'None'", an id, or "TypeError" when the call     *)
(* raises TypeError (a class instead of an instance).                      *)
(***************************************************************************)
PyValue(classes, n, getID) == [classes |-> classes, n |-> n, getID |-> getID]

isinstance(v, class) == class \in v.classes

\* the class of the integer n: in Python 2 an integer beyond the machine
\* word is a long
IntClass(py3, build, n) ==
    IF py3 \/ (~Less(build.maxsize, n) /\ ~Less(n, build.minsize))
    THEN "int" ELSE "long"

GetIDs == {"None", "'None'", "id", "TypeError"}

Values(py3, build, numpy) ==
    LET plain ==
            { PyValue({"bool", "int"}, <<0, 0, 1>>, "absent"),
              PyValue({"bool", "int"}, <<0, 0, 0>>, "absent"),
              PyValue({"str"}, <<0, 0, 0>>, "absent"),
              PyValue({"float"}, <<0, 0, 0>>, "absent"),
              PyValue({"list"}, <<0, 0, 0>>, "absent"),
              PyValue({"tuple"}, <<0, 0, 0>>, "absent"),
              PyValue({"dict"}, <<0, 0, 0>>, "absent"),
              PyValue({"NoneType"}, <<0, 0, 0>>, "absent"),
              PyValue({"object"}, <<0, 0, 0>>, "absent") }
        ints ==
            { PyValue({IntClass(py3, build, n)}, n, "absent") : n \in Integers3 }
        scalars ==
            IF numpy
            THEN { PyValue({"numpy.generic", "float"}, <<0, 0, 0>>, "absent"),
                   PyValue({"numpy.generic", "str"}, <<0, 0, 0>>, "absent"),
                   PyValue({"numpy.generic"}, <<0, 0, 1>>, "absent") }
            ELSE {}
        carriers ==
            { PyValue({"object"}, <<0, 0, 0>>, "absent"),
              PyValue({"list"}, <<0, 0, 0>>, "absent"),
              PyValue({"str"}, <<0, 0, 0>>, "absent"),
              PyValue({"float"}, <<0, 0, 0>>, "absent"),
              PyValue({"int"}, <<0, 0, 1>>, "absent") }
            \cup scalars
    IN  plain \cup ints \cup scalars
        \cup { [v EXCEPT !.getID = g] : v \in carriers, g \in GetIDs }

\* pycompss.util.storages.persistent.has_id
has_id(v) == v.getID /= "absent"

\* pycompss.util.objects.properties.is_basic_iterable
is_basic_iterable(v) ==
    v.classes \cap {"list", "tuple", "bytearray", "set", "frozenset", "dict"}
        /= {}

\* PYCOMPSS_LONG = int if IS_PYTHON3 else long
PYCOMPSS_LONG == IF IS_PYTHON3 THEN "int" ELSE "long"

\* get_compss_type, lines 454-469: the persistent-object probe
psco_probe(v) ==
    IF v.getID = "TypeError" THEN TYPE.OBJECT
    ELSE IF v.getID \notin {"None", "'None'"} THEN TYPE.EXTERNAL_PSCO
    ELSE TYPE.OBJECT

\* get_compss_type, lines 477-501: the checks on the class of the value
class_checks(v, dep) ==
    IF isinstance(v, "bool") THEN TYPE.BOOLEAN
    ELSE IF isinstance(v, "str") THEN TYPE.STRING
    ELSE IF isinstance(v, "int")
         THEN IF IS_PYTHON3
              THEN IF Less(v.n, PYTHON_MAX_INT) THEN TYPE.INT ELSE TYPE.LONG
              ELSE TYPE.INT
    ELSE IF isinstance(v, PYCOMPSS_LONG) THEN TYPE.LONG
    ELSE IF isinstance(v, "float") THEN TYPE.DOUBLE
    ELSE IF dep > 0 /\ is_basic_iterable(v) THEN TYPE.COLLECTION
    ELSE TYPE.OBJECT

get_compss_type_int_first(v, dep) ==
    IF has_id(v) THEN psco_probe(v)
    ELSE IF np /\ isinstance(v, "numpy.generic") THEN TYPE.OBJECT
    ELSE IF isinstance(v, "int")
         THEN IF IS_PYTHON3
              THEN IF Less(v.n, PYTHON_MAX_INT) THEN TYPE.INT ELSE TYPE.LONG
              ELSE TYPE.INT
    ELSE class_checks(v, dep)

get_compss_type_probe_last(v, dep) ==
    IF np /\ isinstance(v, "numpy.generic") THEN TYPE.OBJECT
    ELSE IF class_checks(v, dep) /= TYPE.OBJECT THEN class_checks(v, dep)
    ELSE IF has_id(v) THEN psco_probe(v)
    ELSE TYPE.OBJECT

get_compss_type(v, dep) ==
    IF has_id(v) THEN psco_probe(v)
    ELSE IF np /\ isinstance(v, "numpy.generic") THEN TYPE.OBJECT
    ELSE class_checks(v, dep)

TypeInit ==
    /\ ExecutorIdle
    /\ NoBoot
    /\ NoPipeCall
    /\ NoSignal
    /\ NoStreamCall
    /\ NoParamCall
    /\ NoDecoratedCall
    /\ IS_PYTHON3 \in BOOLEAN
    /\ np \in BOOLEAN
    /\ depth \in 0..MaxDepth
    /\ compss_type = "none"
    /\ \E build \in Builds :
          /\ PYTHON_MAX_INT = build.maxsize
          /\ value \in Values(IS_PYTHON3, build, np)

call_get_compss_type ==
    /\ compss_type = "none"
    /\ compss_type' = get_compss_type(value, depth)
    /\ UNCHANGED <<IS_PYTHON3, PYTHON_MAX_INT, np, value, depth>>
    /\ UNCHANGED beside_type

TypeNext == call_get_compss_type

SpecType == TypeInit /\ [][TypeNext]_vars

Returned == compss_type /= "none"

(***************************************************************************)
(* C14: for every integer value that is not a bool (and has no persistent  *)
(* id), get_compss_type returns INT when the value lies in the signed      *)
(* 32-bit range [-2147483648, 2147483647] and LONG otherwise; 2**40 gives  *)
(* LONG.                                                                   *)
(***************************************************************************)
IsInteger(v) ==
    /\ v.classes \cap {"int", "long"} /= {}
    /\ ~isinstance(v, "bool")
    /\ ~has_id(v)

InInt32(n) == ~Less(n, JAVA_MIN_INT) /\ ~Less(JAVA_MAX_INT, n)

C14_IntWithin32BitsElseLong ==
    (Returned /\ IsInteger(value)) =>
        compss_type = IF InInt32(value.n) THEN TYPE.INT ELSE TYPE.LONG

(***************************************************************************)
(* C15: for a value without persistent id the checks come in a fixed       *)
(* order: every bool is BOOLEAN (never INT), every string is STRING at     *)
(* every depth (never COLLECTION), every float is DOUBLE, a basic iterable *)
(* that is no string is COLLECTION when depth > 0 and OBJECT when          *)
(* depth = 0, and every other value (the integers of C14 apart) is OBJECT. *)
(***************************************************************************)
IsOther(v) ==
    /\ v.classes \cap {"bool", "str", "int", "long", "float"} = {}
    /\ ~is_basic_iterable(v)

C15_TypeByCheckOrder ==
    (Returned /\ ~has_id(value)) =>
        /\ isinstance(value, "bool") => compss_type = TYPE.BOOLEAN
        /\ isinstance(value, "str") => compss_type = TYPE.STRING
        /\ isinstance(value, "float") => compss_type = TYPE.DOUBLE
        /\ (is_basic_iterable(value) /\ ~isinstance(value, "str")) =>
              compss_type = IF depth > 0 THEN TYPE.COLLECTION ELSE TYPE.OBJECT
        /\ IsOther(value) => compss_type = TYPE.OBJECT

\* C15 as amended: the same for every value that is no numeric-library
\* scalar, and a numeric-library scalar (numpy.generic), be it also a float
\* or a string, is OBJECT when numpy is available.
IsScalar(v) == np /\ isinstance(v, "numpy.generic")

C15_TypeByCheckOrderButScalars ==
    (Returned /\ ~has_id(value)) =>
        /\ IsScalar(value) => compss_type = TYPE.OBJECT
        /\ ~IsScalar(value) =>
              /\ isinstance(value, "bool") => compss_type = TYPE.BOOLEAN
              /\ isinstance(value, "str") => compss_type = TYPE.STRING
              /\ isinstance(value, "float") => compss_type = TYPE.DOUBLE
              /\ (is_basic_iterable(value) /\ ~isinstance(value, "str")) =>
                    compss_type = IF depth > 0 THEN TYPE.COLLECTION
                                  ELSE TYPE.OBJECT
              /\ IsOther(value) => compss_type = TYPE.OBJECT

\* True, which is an int as well, was given with a depth above 0 and came
\* back as BOOLEAN
C15_Witness ==
    /\ Returned
    /\ value = PyValue({"bool", "int"}, <<0, 0, 1>>, "absent")
    /\ depth > 0
    /\ compss_type = TYPE.BOOLEAN

(***************************************************************************)
(* C16: the persistent-object probe comes before every other check: a      *)
(* value that has the id attribute is EXTERNAL_PSCO when its id is neither *)
(* None nor 'None', and OBJECT when its id is None or 'None' or when the   *)
(* probe raises TypeError, whatever the other checks would give.           *)
(***************************************************************************)
C16_ProbeTakesPrecedence ==
    (Returned /\ has_id(value)) =>
        compss_type = IF value.getID \in {"None", "'None'", "TypeError"}
                      THEN TYPE.OBJECT ELSE TYPE.EXTERNAL_PSCO

\* a string whose id is None came back as OBJECT, not as STRING
C16_Witness ==
    /\ Returned
    /\ isinstance(value, "str")
    /\ ~isinstance(value, "numpy.generic")
    /\ value.getID = "None"
    /\ compss_type = TYPE.OBJECT

(***************************************************************************)
(* Parameter records and the alias table                                   *)
(* (pycompss/runtime/task/parameter.py).                                   *)
(***************************************************************************)
None == "None"

DIRECTION == [IN |-> "IN", OUT |-> "OUT", INOUT |-> "INOUT",
              CONCURRENT |-> "CONCURRENT", COMMUTATIVE |-> "COMMUTATIVE"]

IOSTREAM == [STDIN |-> "STDIN", STDOUT |-> "STDOUT", STDERR |-> "STDERR",
             UNSPECIFIED |-> "UNSPECIFIED"]

PREFIX == [PREFIX |-> "null"]

UNDEFINED_CONTENT_TYPE == "#UNDEFINED#:#UNDEFINED#"

\* a call with no keyword argument, an empty dictionary
NoKeywords == <<>>

\* TYPE.EXTERNALParamDictKeys: TYPE has no member of this name, evaluating
\* the expression raises AttributeError
NoSuchAttribute == "AttributeError"

\* Parameter.__init__: every field takes its keyword argument, or its default
Parameter(kwargs) ==
    LET defaults ==
            [name |-> None, content |-> None, content_type |-> None,
             direction |-> DIRECTION.IN, stream |-> IOSTREAM.UNSPECIFIED,
             prefix |-> PREFIX.PREFIX, file_name |-> None,
             is_future |-> FALSE, is_file_collection |-> FALSE, depth |-> 1,
             extra_content_type |-> UNDEFINED_CONTENT_TYPE,
             weight |-> "1.0", keep_rename |-> TRUE]
    IN  [f \in DOMAIN defaults |->
            IF f \in DOMAIN kwargs THEN kwargs[f] ELSE defaults[f]]

_param_conversion_dict_ ==
       "IN" :> NoKeywords
    @@ "OUT" :> [direction |-> DIRECTION.OUT]
    @@ "INOUT" :> [direction |-> DIRECTION.INOUT]
    @@ "CONCURRENT" :> [direction |-> DIRECTION.CONCURRENT]
    @@ "COMMUTATIVE" :> [direction |-> DIRECTION.COMMUTATIVE]
    @@ "FILE" :> [content_type |-> TYPE.FILE, keep_rename |-> FALSE]
    @@ "FILE_IN" :> [content_type |-> TYPE.FILE, keep_rename |-> FALSE]
    @@ "FILE_OUT" :>
         [content_type |-> TYPE.FILE,
          direction |-> DIRECTION.OUT,
          keep_rename |-> FALSE]
    @@ "FILE_INOUT" :>
         [content_type |-> TYPE.FILE,
          direction |-> DIRECTION.INOUT,
          keep_rename |-> FALSE]
    @@ "DIRECTORY" :> [content_type |-> TYPE.DIRECTORY, keep_rename |-> FALSE]
    @@ "DIRECTORY_IN" :>
         [content_type |-> TYPE.DIRECTORY,
          keep_rename |-> FALSE]
    @@ "DIRECTORY_OUT" :>
         [content_type |-> TYPE.DIRECTORY,
          direction |-> DIRECTION.OUT,
          keep_rename |-> FALSE]
    @@ "DIRECTORY_INOUT" :>
         [content_type |-> TYPE.DIRECTORY,
          direction |-> DIRECTION.INOUT,
          keep_rename |-> FALSE]
    @@ "FILE_CONCURRENT" :>
         [content_type |-> TYPE.FILE,
          direction |-> DIRECTION.CONCURRENT,
          keep_rename |-> FALSE]
    @@ "FILE_COMMUTATIVE" :>
         [content_type |-> TYPE.FILE,
          direction |-> DIRECTION.COMMUTATIVE,
          keep_rename |-> FALSE]
    @@ "FILE_STDIN" :>
         [content_type |-> TYPE.FILE,
          stream |-> IOSTREAM.STDIN,
          keep_rename |-> FALSE]
    @@ "FILE_STDERR" :>
         [content_type |-> TYPE.FILE,
          stream |-> IOSTREAM.STDERR,
          keep_rename |-> FALSE]
    @@ "FILE_STDOUT" :>
         [content_type |-> TYPE.FILE,
          stream |-> IOSTREAM.STDOUT,
          keep_rename |-> FALSE]
    @@ "FILE_IN_STDIN" :>
         [content_type |-> TYPE.FILE,
          direction |-> DIRECTION.IN,
          stream |-> IOSTREAM.STDIN,
          keep_rename |-> FALSE]
    @@ "FILE_IN_STDERR" :>
         [content_type |-> TYPE.FILE,
          direction |-> DIRECTION.IN,
          stream |-> IOSTREAM.STDERR,
          keep_rename |-> FALSE]
    @@ "FILE_IN_STDOUT" :>
         [content_type |-> TYPE.FILE,
          direction |-> DIRECTION.IN,
          stream |-> IOSTREAM.STDOUT,
          keep_rename |-> FALSE]
    @@ "FILE_OUT_STDIN" :>
         [content_type |-> TYPE.FILE,
          direction |-> DIRECTION.OUT,
          stream |-> IOSTREAM.STDIN,
          keep_rename |-> FALSE]
    @@ "FILE_OUT_STDERR" :>
         [content_type |-> TYPE.FILE,
          direction |-> DIRECTION.OUT,
          stream |-> IOSTREAM.STDERR,
          keep_rename |-> FALSE]
    @@ "FILE_OUT_STDOUT" :>
         [content_type |-> TYPE.FILE,
          direction |-> DIRECTION.OUT,
          stream |-> IOSTREAM.STDOUT,
          keep_rename |-> FALSE]
    @@ "FILE_INOUT_STDIN" :>
         [content_type |-> TYPE.FILE,
          direction |-> DIRECTION.INOUT,
          stream |-> IOSTREAM.STDIN,
          keep_rename |-> FALSE]
    @@ "FILE_INOUT_STDERR" :>
         [content_type |-> TYPE.FILE,
          direction |-> DIRECTION.INOUT,
          stream |-> IOSTREAM.STDERR,
          keep_rename |-> FALSE]
    @@ "FILE_INOUT_STDOUT" :>
         [content_type |-> TYPE.FILE,
          direction |-> DIRECTION.INOUT,
          stream |-> IOSTREAM.STDOUT,
          keep_rename |-> FALSE]
    @@ "FILE_CONCURRENT_STDIN" :>
         [content_type |-> TYPE.FILE,
          direction |-> DIRECTION.CONCURRENT,
          stream |-> IOSTREAM.STDIN,
          keep_rename |-> FALSE]
    @@ "FILE_CONCURRENT_STDERR" :>
         [content_type |-> TYPE.FILE,
          direction |-> DIRECTION.CONCURRENT,
          stream |-> IOSTREAM.STDERR,
          keep_rename |-> FALSE]
    @@ "FILE_CONCURRENT_STDOUT" :>
         [content_type |-> TYPE.FILE,
          direction |-> DIRECTION.CONCURRENT,
          stream |-> IOSTREAM.STDOUT,
          keep_rename |-> FALSE]
    @@ "FILE_COMMUTATIVE_STDIN" :>
         [content_type |-> TYPE.FILE,
          direction |-> DIRECTION.COMMUTATIVE,
          stream |-> IOSTREAM.STDIN,
          keep_rename |-> FALSE]
    @@ "FILE_COMMUTATIVE_STDERR" :>
         [content_type |-> TYPE.FILE,
          direction |-> DIRECTION.COMMUTATIVE,
          stream |-> IOSTREAM.STDERR,
          keep_rename |-> FALSE]
    @@ "FILE_COMMUTATIVE_STDOUT" :>
         [content_type |-> TYPE.FILE,
          direction |-> DIRECTION.COMMUTATIVE,
          stream |-> IOSTREAM.STDOUT,
          keep_rename |-> FALSE]
    @@ "COLLECTION" :> [content_type |-> TYPE.COLLECTION]
    @@ "COLLECTION_IN" :>
         [content_type |-> TYPE.COLLECTION,
          direction |-> DIRECTION.IN]
    @@ "COLLECTION_INOUT" :>
         [content_type |-> TYPE.COLLECTION,
          direction |-> DIRECTION.INOUT]
    @@ "COLLECTION_OUT" :>
         [content_type |-> TYPE.COLLECTION,
          direction |-> DIRECTION.OUT]
    @@ "STREAM_IN" :>
         [content_type |-> NoSuchAttribute,
          direction |-> DIRECTION.IN]
    @@ "STREAM_OUT" :>
         [content_type |-> NoSuchAttribute,
          direction |-> DIRECTION.OUT]
    @@ "COLLECTION_FILE" :>
         [content_type |-> TYPE.COLLECTION,
          is_file_collection |-> TRUE,
          keep_rename |-> FALSE]
    @@ "COLLECTION_FILE_IN" :>
         [content_type |-> TYPE.COLLECTION,
          direction |-> DIRECTION.IN,
          is_file_collection |-> TRUE,
          keep_rename |-> FALSE]
    @@ "COLLECTION_FILE_INOUT" :>
         [content_type |-> TYPE.COLLECTION,
          direction |-> DIRECTION.INOUT,
          is_file_collection |-> TRUE,
          keep_rename |-> FALSE]
    @@ "COLLECTION_FILE_OUT" :>
         [content_type |-> TYPE.COLLECTION,
          direction |-> DIRECTION.OUT,
          is_file_collection |-> TRUE,
          keep_rename |-> FALSE]

\* evaluating the entry of the table raises
entry_raises(k) ==
    /\ "content_type" \in DOMAIN _param_conversion_dict_[k]
    /\ _param_conversion_dict_[k].content_type = NoSuchAttribute

get_new_parameter(k) == Parameter(_param_conversion_dict_[k])

\* copy.deepcopy of a Parameter: a new object with equal fields
get_parameter_copy(parameter) == parameter

\* d[k] = v
SetKey(dict, k, v) ==
    [x \in DOMAIN dict \cup {k} |-> IF x = k THEN v ELSE dict[x]]

\* get_parameter_from_dictionary, lines 431-442: the fields given in the
\* dictionary are assigned to the parameter
overrides_without_direction(parameter, dict) ==
    LET p2 == IF "StdIOStream" \in DOMAIN dict
              THEN [parameter EXCEPT !.stream = dict["StdIOStream"]]
              ELSE parameter
        p3 == IF "Prefix" \in DOMAIN dict
              THEN [p2 EXCEPT !.prefix = dict["Prefix"]] ELSE p2
        p4 == IF "Depth" \in DOMAIN dict
              THEN [p3 EXCEPT !.depth = dict["Depth"]] ELSE p3
        p5 == IF "Weight" \in DOMAIN dict
              THEN [p4 EXCEPT !.weight = dict["Weight"]] ELSE p4
    IN  IF "Keep_rename" \in DOMAIN dict
        THEN [p5 EXCEPT !.keep_rename = dict["Keep_rename"]] ELSE p5

overrides(parameter, dict) ==
    LET p1 == IF "Direction" \in DOMAIN dict
              THEN [parameter EXCEPT !.direction = dict["Direction"]]
              ELSE parameter
        p2 == IF "StdIOStream" \in DOMAIN dict
              THEN [p1 EXCEPT !.stream = dict["StdIOStream"]] ELSE p1
        p3 == IF "Prefix" \in DOMAIN dict
              THEN [p2 EXCEPT !.prefix = dict["Prefix"]] ELSE p2
        p4 == IF "Depth" \in DOMAIN dict
              THEN [p3 EXCEPT !.depth = dict["Depth"]] ELSE p3
        p5 == IF "Weight" \in DOMAIN dict
              THEN [p4 EXCEPT !.weight = dict["Weight"]] ELSE p4
    IN  IF "Keep_rename" \in DOMAIN dict
        THEN [p5 EXCEPT !.keep_rename = dict["Keep_rename"]] ELSE p5

\* get_parameter_from_dictionary: the heap and the dictionary after the
\* call, and the reference returned
get_parameter_from_dictionary(objs, dict) ==
    LET objs1 == IF "Type" \notin DOMAIN dict
                 THEN Append(objs, Parameter(NoKeywords)) ELSE objs
        d1 == IF "Type" \notin DOMAIN dict
              THEN SetKey(dict, "Type", Len(objs1)) ELSE dict
        objs2 == Append(objs1, get_parameter_copy(objs1[d1["Type"]]))
        d2 == SetKey(d1, "Type", Len(objs2))
        parameter == d2["Type"]
    IN  [objects |-> [objs2 EXCEPT
                        ![parameter] = overrides(objs2[parameter], d2)],
         d |-> d2,
         parameter |-> parameter]

\* the dictionaries a caller writes, before a Type is put in them
Dictionaries ==
    { NoKeywords,
      [Direction |-> DIRECTION.IN],
      [Direction |-> DIRECTION.OUT, Keep_rename |-> TRUE],
      [StdIOStream |-> IOSTREAM.STDOUT, Prefix |-> "--file="],
      [Direction |-> DIRECTION.INOUT, StdIOStream |-> IOSTREAM.STDERR,
       Prefix |-> "#", Depth |-> 2, Weight |-> "2.0",
       Keep_rename |-> FALSE] }

\* what the user of a record assigns to it
Assignments ==
    { [field |-> "direction", to |-> DIRECTION.COMMUTATIVE] }

ParamInit ==
    /\ ExecutorIdle
    /\ NoBoot
    /\ NoPipeCall
    /\ NoSignal
    /\ NoStreamCall
    /\ NoTypeCall
    /\ NoDecoratedCall
    /\ key \in DOMAIN _param_conversion_dict_
    /\ objects = <<>>
    /\ d \in Dictionaries
    /\ results = <<>>

Result(fn, arg, template, parameter, objs) ==
    [fn |-> fn, arg |-> arg, template |-> template, parameter |-> parameter,
     raised |-> parameter = 0,
     fields |-> IF parameter = 0 THEN NoKeywords ELSE objs[parameter]]

call_get_new_parameter ==
    /\ Len(results) < MaxCalls
    /\ IF entry_raises(key)
       THEN /\ results' = Append(results,
                 Result("get_new_parameter", key, NoKeywords, 0, objects))
            /\ UNCHANGED objects
       ELSE /\ objects' = Append(objects, get_new_parameter(key))
            /\ results' = Append(results,
                 Result("get_new_parameter", key, NoKeywords,
                        Len(objects'), objects'))
    /\ UNCHANGED <<key, d>>
    /\ UNCHANGED beside_param

call_get_parameter_copy ==
    /\ Len(results) < MaxCalls
    /\ \E parameter \in 1..Len(objects) :
          /\ objects' = Append(objects, get_parameter_copy(objects[parameter]))
          /\ results' = Append(results,
               Result("get_parameter_copy", parameter, objects[parameter],
                      Len(objects'), objects'))
    /\ UNCHANGED <<key, d>>
    /\ UNCHANGED beside_param

\* the caller puts a record made from the alias under Type
set_type ==
    /\ "Type" \notin DOMAIN d
    /\ \A i \in 1..Len(results) :
          results[i].fn /= "get_parameter_from_dictionary"
    /\ \E parameter \in 1..Len(objects) :
          d' = SetKey(d, "Type", parameter)
    /\ UNCHANGED <<key, objects, results>>
    /\ UNCHANGED beside_param

call_get_parameter_from_dictionary ==
    /\ Len(results) < MaxCalls
    /\ LET after == get_parameter_from_dictionary(objects, d)
       IN  /\ objects' = after.objects
           /\ d' = after.d
           /\ results' = Append(results,
                Result("get_parameter_from_dictionary", d,
                       IF "Type" \in DOMAIN d THEN objects[d["Type"]]
                       ELSE NoKeywords,
                       after.parameter, after.objects))
    /\ UNCHANGED key
    /\ UNCHANGED beside_param

\* the user of a record assigns to one of its fields
assign ==
    /\ \E parameter \in 1..Len(objects), a \in Assignments :
          /\ objects[parameter][a.field] /= a.to
          /\ objects' = [objects EXCEPT ![parameter][a.field] = a.to]
    /\ UNCHANGED <<key, d, results>>
    /\ UNCHANGED beside_param

ParamNext ==
    \/ call_get_new_parameter
    \/ call_get_parameter_copy
    \/ set_type
    \/ call_get_parameter_from_dictionary
    \/ assign

SpecParam == ParamInit /\ [][ParamNext]_vars

CallsOf(fn) == {i \in 1..Len(results) : results[i].fn = fn}

(***************************************************************************)
(* C17: for every alias of the conversion table, get_new_parameter(alias)  *)
(* returns the default record (direction IN, content type OBJECT, which a  *)
(* Parameter holds as content_type None, stream UNSPECIFIED, depth 1,      *)
(* weight "1.0", is_file_collection false, keep_rename true) with exactly  *)
(* the fields of the alias's overlay replaced; keep_rename is false for    *)
(* the aliases of content type FILE or DIRECTORY and for the               *)
(* COLLECTION_FILE aliases, and true for every other alias.                *)
(***************************************************************************)
DefaultRecord ==
    [name |-> "None", content |-> "None", content_type |-> "None",
     direction |-> "IN", stream |-> "UNSPECIFIED", prefix |-> "null",
     file_name |-> "None", is_future |-> FALSE,
     is_file_collection |-> FALSE, depth |-> 1,
     extra_content_type |-> "#UNDEFINED#:#UNDEFINED#", weight |-> "1.0",
     keep_rename |-> TRUE]

Overlaid(record, overlay) ==
    [f \in DOMAIN record |->
        IF f \in DOMAIN overlay THEN overlay[f] ELSE record[f]]

C17_AliasIsDefaultWithOverlay ==
    \A i \in CallsOf("get_new_parameter") :
        /\ ~results[i].raised
        /\ results[i].fields
             = Overlaid(DefaultRecord, _param_conversion_dict_[results[i].arg])
        /\ results[i].fields.keep_rename
             = ~(\/ results[i].fields.content_type \in {"FILE", "DIRECTORY"}
                 \/ results[i].fields.is_file_collection)

(***************************************************************************)
(* C31: get_new_parameter of the alias STREAM_IN, respectively STREAM_OUT, *)
(* gives a record with content type EXTERNAL_STREAM and direction IN,      *)
(* respectively OUT, and every other field at its default.                 *)
(***************************************************************************)
StreamAliases == {"STREAM_IN", "STREAM_OUT"}

StreamRecord(alias) ==
    Overlaid(DefaultRecord,
             [content_type |-> TYPE.EXTERNAL_STREAM,
              direction |-> IF alias = "STREAM_IN" THEN DIRECTION.IN
                            ELSE DIRECTION.OUT])

C31_StreamAliasesAreExternalStream ==
    \A i \in CallsOf("get_new_parameter") :
        results[i].arg \in StreamAliases =>
            /\ ~results[i].raised
            /\ results[i].fields = StreamRecord(results[i].arg)


(***************************************************************************)
(* C18: get_parameter_from_dictionary(d) returns the record under key Type *)
(* with each of Direction, StdIOStream, Prefix, Depth, Weight and          *)
(* Keep_rename that is present in d put in place of the alias's value, and *)
(* every field absent from d as the alias has it: Type FILE_OUT with       *)
(* Direction IN gives direction IN.                                        *)
(***************************************************************************)
DictKeyOf ==
    [direction |-> "Direction", stream |-> "StdIOStream",
     prefix |-> "Prefix", depth |-> "Depth", weight |-> "Weight",
     keep_rename |-> "Keep_rename"]

Overridden(record, dict) ==
    [f \in DOMAIN record |->
        IF f \in DOMAIN DictKeyOf /\ DictKeyOf[f] \in DOMAIN dict
        THEN dict[DictKeyOf[f]] ELSE record[f]]

C18_ExplicitFieldsWinOverAlias ==
    \A i \in CallsOf("get_parameter_from_dictionary") :
        "Type" \in DOMAIN results[i].arg =>
            /\ ~results[i].raised
            /\ results[i].fields
                 = Overridden(results[i].template, results[i].arg)

\* the record of FILE_OUT was put under Type next to Direction IN, and the
\* call returned a FILE record of direction IN with keep_rename false
C18_Witness ==
    /\ key = "FILE_OUT"
    /\ Len(results) = 2
    /\ results[1].fn = "get_new_parameter"
    /\ results[1].fields.direction = "OUT"
    /\ results[2].fn = "get_parameter_from_dictionary"
    /\ results[2].arg = [Direction |-> "IN", Type |-> results[1].parameter]
    /\ results[2].fields.direction = "IN"
    /\ results[2].fields.content_type = "FILE"
    /\ results[2].fields.keep_rename = FALSE

(***************************************************************************)
(* C19: alias conversion is deterministic and the records are independent: *)
(* two get_new_parameter calls for one alias return records with equal     *)
(* fields, two get_parameter_from_dictionary calls on one dictionary       *)
(* return records with equal fields, and no call returns an object that    *)
(* another call returned or that was passed to it as template, so that an  *)
(* assignment to one record shows in no other.                             *)
(***************************************************************************)
C19_DeterministicAndIndependent ==
    /\ \A i, j \in CallsOf("get_new_parameter") :
          results[i].fields = results[j].fields
    /\ \A i, j \in CallsOf("get_parameter_from_dictionary") :
          results[i].fields = results[j].fields
    /\ \A i, j \in 1..Len(results) :
          (i /= j /\ ~results[i].raised /\ ~results[j].raised) =>
              results[i].parameter /= results[j].parameter
    /\ \A i \in CallsOf("get_parameter_copy") :
          results[i].parameter /= results[i].arg
    /\ \A i \in CallsOf("get_parameter_from_dictionary") :
          "Type" \in DOMAIN results[i].arg =>
              results[i].parameter /= results[i].arg["Type"]


(***************************************************************************)
(* C23: when thread_affinity.setaffinity fails in bind_cpus, bind_cpus     *)
(* returns False and nothing is raised: the task is dispatched with the    *)
(* affinity of a process whose affinity was never set, a warning is        *)
(* logged, the reply of the dispatcher's result is written and the loop    *)
(* goes on.                                                                *)
(***************************************************************************)
BindFailed(t) == ~t.affinity_ok

\* the steps of a task after the failed binding: set-up, clean-up, reply
GoesOnAsUsual ==
    /\ pc = "task_try" /\ BindFailed(task)
          => /\ pc' = "dispatch"
             /\ affinity' = affinity
             /\ task'.warned
    /\ pc = "dispatch" /\ BindFailed(task) /\ ~task'.result.raised
          => pc' = "task_clean" /\ affinity' = affinity
    /\ pc = "task_clean" /\ BindFailed(task) => pc' = "task_reply"
    /\ pc = "task_reply" /\ BindFailed(task)
          => /\ out_pipe' = Append(out_pipe,
                                   build_message(task.result, task.job_id)
                                   \o NL)
             /\ pc' = "running"
             /\ alive' /\ alive

GpuTaskInHand ==
    /\ Len(consumed) > 0
    /\ IsTaskCmd(Current)
    /\ GpuMask(Current) /= SENTINEL

C24_GpuMaskVerbatim ==
    GpuTaskInHand =>
        /\ pc /= "raised"
        /\ pc = "dispatch" =>
              \A v \in BindingVarsGpu :
                  v \in DOMAIN env /\ env[v] = GpuMask(Current)


(***************************************************************************)
(* C25: while the dispatcher runs an EXECUTE_TASK command whose token 12   *)
(* is the node count N, COMPSS_NUM_NODES equals N, COMPSS_HOSTNAMES is     *)
(* tokens 13..12+N joined by commas, COMPSS_NUM_THREADS and                *)
(* OMP_NUM_THREADS equal token 13+N, and the dispatcher has been given the *)
(* tokens from index 9 on of the command without its last three tokens.    *)
(***************************************************************************)
NodeCount(c) == IntOfStr(At(c, 12))

HostTokens(c) == [i \in 1..NodeCount(c) |-> At(c, 12 + i)]

\* the tokens 9 .. Len - 4 of the command
TokensForDispatcher(c) == [i \in 1..(Len(c) - 12) |-> At(c, 8 + i)]

EnvIs(v, text) == v \in DOMAIN env /\ env[v] = text

OneLine(text) ==
    /\ Len(text) > 0
    /\ text[Len(text)] = "\n"
    /\ \A i \in 1..(Len(text) - 1) : text[i] /= "\n"

C26_OneLinePerReply == \A i \in 1..Len(out_pipe) : OneLine(out_pipe[i])


(***************************************************************************)
(* SIGTERM.  executor installs shutdown_handler (line 250), which raises   *)
(* PyCOMPSsException("Received SIGTERM") at the statement the process is   *)
(* executing.  Inside the try block of process_task (lines 559-660) the    *)
(* exception is caught: "EXCEPTION" is put on the queue, if there is one,  *)
(* and process_task returns False, so the loop ends and the teardown runs. *)
(* Inside process_ping's try block (lines 715-718) it is caught and False  *)
(* is returned.  Anywhere else it reaches the except clause of executor    *)
(* (lines 371-373), which logs it and raises it again.                     *)
(***************************************************************************)
Delivered(quit_written) ==
    [at |-> pc, replies |-> Len(out_pipe), queued |-> Len(queue),
     quit_written |-> quit_written]

\* lines 371-373: the exception leaves executor
sigterm_leaves_executor ==
    /\ ret' = "raised"
    /\ pc' = "raised"
    /\ UNCHANGED <<alive, queue>>

\* lines 653-660: the except clause of process_task
sigterm_caught_in_task ==
    /\ queue' = IF has_queue THEN Append(queue, "EXCEPTION") ELSE queue
    /\ ret' = "False"
    /\ alive' = FALSE
    /\ pc' = "teardown"

\* lines 717-718: the except clause of process_ping
sigterm_caught_in_ping ==
    /\ ret' = "False"
    /\ alive' = FALSE
    /\ pc' = "teardown"
    /\ UNCHANGED queue

shutdown_handler ==
    /\ sigterm.at = "none"
    /\ pc \notin {"exited", "raised"}
    /\ \E quit_written \in (IF pc = "teardown" THEN BOOLEAN ELSE {FALSE}) :
          \* in the teardown the signal arrives before or after
          \* pipe.write(QUIT_TAG) of line 369
          /\ sigterm' = Delivered(quit_written)
          /\ out_pipe' = IF quit_written THEN write(out_pipe, QUIT_TAG)
                         ELSE out_pipe
    /\ \/ /\ pc \in {"task_try", "dispatch"}
          /\ sigterm_caught_in_task
       \/ /\ pc = "message"
          /\ At(Current, 0) = PING_TAG
          /\ sigterm_caught_in_ping
       \/ /\ pc \notin {"task_try", "dispatch"}
          /\ sigterm_leaves_executor
    /\ UNCHANGED <<nread, command, consumed, env, affinity, logger,
                   storage_loggers, task, input_pipe_open, input_file>>
    /\ UNCHANGED conf
    /\ UNCHANGED <<type_vars, param_vars, ce_vars, stream_vars, pipe_vars, boot_vars>>

SigtermNext ==
    \/ Next
    \/ shutdown_handler

SpecSigterm == Init /\ [][SigtermNext]_vars

Terminated == pc \in {"exited", "raised"}

(***************************************************************************)
(* C27: in every run in which SIGTERM was delivered and the executor has   *)
(* terminated, a reply was written to the output pipe after the signal or  *)
(* "EXCEPTION" was put on the supervisor queue after it.                   *)
(***************************************************************************)
C27_SigtermReplyOrException ==
    (sigterm.at /= "none" /\ Terminated) =>
        \/ Len(out_pipe) > sigterm.replies
        \/ Len(queue) > sigterm.queued


(***************************************************************************)
(* C28: while the dispatcher runs a task, the process logger and each      *)
(* storage logger have exactly the two job file handlers attached, job-out *)
(* at the snapshotted level and job-err at ERROR, and none of the handlers *)
(* they had before the task.                                               *)
(***************************************************************************)
JobHandlers ==
    <<FileHandler(At(Current, 2), logger_level),
      FileHandler(At(Current, 3), "ERROR")>>

LoggerOnJobFiles == logger = JobHandlers

StorageLoggersOnJobFiles ==
    \A i \in 1..Len(storage_loggers) : storage_loggers[i] = JobHandlers

C28_OnlyJobHandlersWhileDispatching ==
    pc = "dispatch" => LoggerOnJobFiles /\ StorageLoggersOnJobFiles


(***************************************************************************)
(* Start and end of the executor: storage hooks and streaming client.      *)
(***************************************************************************)
EventsOf(what) == {k \in 1..Len(events) : events[k].what = what}

\* a stream backend is configured
StreamingConfigured ==
    /\ stream_backend /= NoneObject
    /\ stream_backend /= String(<<"null">>)
    /\ stream_backend /= String(<<"NONE">>)

Bootstrapped == pc /= "starting"

QuitWrittenWithin(n) == \E i \in 1..n : out_pipe[i] = QUIT_TAG \o NL

(***************************************************************************)
(* C35: once the bootstrap is over, the streaming client has been started  *)
(* if and only if the stream backend is none of None, "null" and "NONE",   *)
(* and it was started before any command was read.  set_stop is called     *)
(* only on a started client, after the loop has ended and before the QUIT  *)
(* reply is written, and at most once; when the teardown has run, it has   *)
(* been called if and only if the client was started.                      *)
(***************************************************************************)
C35_StreamingClientStartAndStop ==
    /\ Bootstrapped =>
          /\ EventsOf("init_and_start") /= {} <=> StreamingConfigured
          /\ \A k \in EventsOf("init_and_start") : events[k].nread = 0
    /\ \A k \in EventsOf("set_stop") :
          /\ \E j \in EventsOf("init_and_start") : j < k
          /\ events[k].loop_ended
          /\ ~QuitWrittenWithin(events[k].written)
          /\ pc = "exited"
    /\ Cardinality(EventsOf("set_stop")) <= 1
    /\ pc = "exited" =>
          /\ EventsOf("set_stop") /= {} <=> EventsOf("init_and_start") /= {}
          /\ out_pipe[Len(out_pipe)] = QUIT_TAG \o NL

\* an executor with a stream backend has read a command, left the loop and
\* stopped the client before it wrote QUIT as its second reply
C35_Witness ==
    /\ pc = "exited"
    /\ stream_backend = String(<<"OBJECTS">>)
    /\ nread = 2
    /\ Len(out_pipe) = 2
    /\ \E k \in EventsOf("set_stop") : events[k].written = 1

StartFails == StreamingConfigured /\ ~client_starts

StorageHookMissing == storage_conf /= <<"null">> /\ ~storage_api

(***************************************************************************)
(* C36: if starting the streaming client raises, the error is logged and   *)
(* the executor ends with the exception: no command is ever read and no    *)
(* QUIT reply is written.  If storage is configured but the post-fork hook *)
(* cannot be imported, that is logged at info level before any command is  *)
(* read and the executor enters the command loop all the same.             *)
(***************************************************************************)
C36_BootstrapFailures ==
    /\ (Bootstrapped /\ StartFails) =>
          /\ pc = "raised"
          /\ nread = 0
          /\ out_pipe = <<>>
          /\ \E k \in EventsOf("error") :
                \E j \in EventsOf("init_and_start") : j < k
    /\ (Bootstrapped /\ StorageHookMissing) =>
          /\ events /= <<>>
          /\ events[1] = [what |-> "info", nread |-> 0, written |-> 0,
                          loop_ended |-> FALSE]
          /\ EventsOf("initWorkerPostFork") = {}
    /\ (Bootstrapped /\ StorageHookMissing /\ ~StartFails) =>
          (pc = "raised" => nread > 0)

\* the hook is missing and the executor is processing its first command
C36_Witness ==
    /\ StorageHookMissing
    /\ ~StreamingConfigured
    /\ pc = "message"
    /\ nread = 1
    /\ EventsOf("info") = {1}

\* the client could not be started
C36_WitnessStartFails ==
    /\ StartFails
    /\ pc = "raised"
    /\ EventsOf("error") /= {}


(***************************************************************************)
(* C37: when the thread-affinity backend is not available, bind_cpus is    *)
(* not called for any task and no cpu_affinity or cpu_number event is      *)
(* emitted for it, neither before the task runs nor after it.              *)
(***************************************************************************)
CpuEvents ==
    {k \in 1..Len(task.trace) :
        task.trace[k].kind \in {"cpu_affinity", "cpu_number"}}

C37_NoCpuEventsWithoutBackend ==
    ~THREAD_AFFINITY =>
        /\ ~task.bind_cpus_called
        /\ ~task.binded_cpus
        /\ CpuEvents = {}

\* without the backend, a task with a CPU mask and a task with a GPU mask
\* have been cleaned up after: only the GPU events were emitted
C37_Witness ==
    /\ ~THREAD_AFFINITY
    /\ pc = "task_reply"
    /\ nread = 2
    /\ IsTaskCmd(consumed[1])
    /\ CpuMask(consumed[1]) /= SENTINEL
    /\ task.trace = <<emit_manual_event(0, "gpu_affinity"),
                      emit_manual_event(0, "gpu_affinity")>>


(***************************************************************************)
(* C40: once the dispatching of the EXECUTE_TASK in hand has raised, the   *)
(* loop is over (process_task returned False) and the executor is at its   *)
(* teardown or past it; no reply to that task is on the output pipe, then  *)
(* or later; no further command is read; and the only write to the output  *)
(* pipe from then on is the QUIT reply, which the teardown writes.         *)
(***************************************************************************)
\* the try block of process_task has raised for the command in hand
ExceptionPath ==
    /\ nread > 0
    /\ IsTaskCmd(Current)
    /\ task.result.raised

\* every task consumed but the one in hand has its reply, and that one none
NoReplyToCurrent == NumTaskReplies = NumTasksIn(consumed) - 1

C40_ExceptionPathEndsWithQuit ==
    [][/\ (~ExceptionPath /\ ExceptionPath') => out_pipe' = out_pipe
       /\ ExceptionPath' => NoReplyToCurrent'
       /\ ExceptionPath =>
             /\ pc \in {"teardown", "exited"}
             /\ ~alive
             /\ ret = "False"
             /\ nread' = nread
             /\ consumed' = consumed
             /\ pc = "teardown"
             /\ pc' = "exited"
             /\ out_pipe' = write(out_pipe, QUIT_TAG)]_vars

\* a first task was answered, the second raised, and the executor has left
C40_Witness ==
    /\ pc = "exited"
    /\ ExceptionPath
    /\ nread = 2
    /\ IsTaskCmd(consumed[1])
    /\ Len(out_pipe) = 2
    /\ IsTaskReply(out_pipe[1])
    /\ out_pipe[2] = QUIT_TAG \o NL
    /\ events = <<>>

(***************************************************************************)
(* Capability decorators and the core element                              *)
(* (pycompss/api/mpmd_mpi.py, pycompss/api/http.py).                       *)
(***************************************************************************)
\* str(x)
str(x) == IF "int" \in DOMAIN x THEN String(StrOfInt(x.int)) ELSE x

\* dict.get(k, default)
get(dict, k, default) == IF k \in DOMAIN dict THEN dict[k] ELSE default

CORE_ELEMENT_KEY == "compss_core_element"

\* CE(): a core element with nothing set
CE == [impl_type |-> None, impl_signature |-> NoneObject,
       impl_type_args |-> NoneObject]

set_impl_type(ce, impl_type) == [ce EXCEPT !.impl_type = impl_type]

set_impl_signature(ce, impl_signature) ==
    [ce EXCEPT !.impl_signature = impl_signature]

set_impl_type_args(ce, impl_args) ==
    [ce EXCEPT !.impl_type_args = List(impl_args)]

\* a reference to the CE object at position i of the heap
Ref(i) == [ref |-> i]

\* a decorator instance as its constructor leaves it
Decorator(name, kwargs) ==
    [name |-> name, kwargs |-> kwargs, core_element_configured |-> FALSE]

Programs ==
    [date |-> [binary |-> String(<<"date">>)],
     hostname |-> [binary |-> String(<<"hostname">>), params |-> String(<<"-f">>),
                   processes |-> Integer(2)],
     nothing |-> [params |-> String(<<"-d">>)]]

\* the keyword arguments given to @mpmd_mpi
MpmdMpiArguments ==
    { [runner |-> String(<<"mpirun">>), programs |-> <<Programs.date>>],
      [runner |-> String(<<"srun">>),
       programs |-> <<Programs.hostname, Programs.date>>,
       processes_per_node |-> Integer(2), working_dir |-> String(<<"/tmp">>),
       fail_by_exit_value |-> String(<<"false">>)],
      [runner |-> String(<<"mpirun">>), programs |-> <<Programs.nothing>>] }

\* the keyword arguments given to @http
HttpArguments ==
    { [service_name |-> String(<<"service">>), resource |-> String(<<"users">>),
       request |-> String(<<"GET">>)],
      [service_name |-> String(<<"service">>), resource |-> String(<<"users">>),
       request |-> String(<<"POST">>), payload |-> String(<<"{}">>),
       payload_type |-> String(<<"text/plain">>), produces |-> String(<<"id">>),
       updates |-> String(<<"user">>)] }

\* an @ompss instance as its constructor leaves it: the computing nodes are
\* resolved, nothing is registered
OmpSs(kwargs) ==
    [name |-> "OmpSs",
     kwargs |-> SetKey(kwargs, "computing_nodes",
                       get(kwargs, "computing_nodes", Integer(1))),
     registered |-> FALSE]

OmpSsArguments == { [binary |-> String(<<"a.out">>)] }

Instances ==
    { Decorator("MPMDMPI", a) : a \in MpmdMpiArguments }
    \cup { Decorator("HTTP", a) : a \in HttpArguments }
    \cup { OmpSs(a) : a \in OmpSsArguments }

Stacks == UNION { [1..n -> Instances] : n \in 1..MaxStack }

\* outside PyCOMPSs, in the master, in a worker, in a worker with nesting
Contexts ==
    { [scope |-> FALSE, in_master |-> FALSE, nesting |-> FALSE],
      [scope |-> TRUE, in_master |-> TRUE, nesting |-> FALSE],
      [scope |-> TRUE, in_master |-> FALSE, nesting |-> FALSE],
      [scope |-> TRUE, in_master |-> FALSE, nesting |-> TRUE] }

__resolve_working_dir__(kwargs) ==
    SetKey(kwargs, "working_dir",
           get(kwargs, "working_dir", String(<<"[unassigned]">>)))

__resolve_fail_by_exit_value__(kwargs) ==
    SetKey(kwargs, "fail_by_exit_value",
           get(kwargs, "fail_by_exit_value", String(<<"true">>)))

\* _get_programs_params raises for a program without binary
_get_programs_params_raises(kwargs) ==
    \E i \in 1..Len(kwargs.programs) :
        LET binary == get(kwargs.programs[i], "binary", NoneObject)
        IN  binary = NoneObject \/ binary = String(<<>>)

RECURSIVE programs_params(_)
programs_params(programs) ==
    IF programs = <<>> THEN <<>>
    ELSE LET program == Head(programs)
             binary == get(program, "binary", NoneObject)
             params == get(program, "params", String(<<"#">>))
             procs == get(program, "processes", String(<<"#">>))
         IN  <<binary, params, procs>> \o programs_params(Tail(programs))

\* the number of programs is put after the programs, not before them
_get_programs_params_count_last(kwargs) ==
    programs_params(kwargs.programs) \o <<Integer(Len(kwargs.programs))>>

_get_programs_params(kwargs) ==
    <<Integer(Len(kwargs.programs))>> \o programs_params(kwargs.programs)

\* a CE is made and put under the key whether the call holds one or not
always_fresh_core_element(kwargs, heap, impl_type, impl_signature, impl_args) ==
    LET core_element ==
            set_impl_type_args(
                set_impl_signature(set_impl_type(CE, impl_type),
                                   impl_signature), impl_args)
    IN  [kwargs |-> SetKey(kwargs, CORE_ELEMENT_KEY, Ref(Len(heap) + 1)),
         core_elements |-> Append(heap, core_element)]

\* MPMDMPI.__configure_core_element__, lines 191-200
MPMDMPI_core_element(kwargs, heap, impl_type, impl_signature, impl_args) ==
    IF CORE_ELEMENT_KEY \in DOMAIN kwargs
    THEN LET i == kwargs[CORE_ELEMENT_KEY].ref
         IN  [kwargs |-> kwargs,
              core_elements |->
                  [heap EXCEPT ![i] =
                      set_impl_type_args(
                          set_impl_signature(set_impl_type(heap[i], impl_type),
                                             impl_signature), impl_args)]]
    ELSE LET core_element ==
                 set_impl_type_args(
                     set_impl_signature(set_impl_type(CE, impl_type),
                                        impl_signature), impl_args)
         IN  [kwargs |-> SetKey(kwargs, CORE_ELEMENT_KEY, Ref(Len(heap) + 1)),
              core_elements |-> Append(heap, core_element)]

\* MPMDMPI.__configure_core_element__: self.kwargs as the two resolutions
\* leave it
MPMDMPI_resolved(self) ==
    __resolve_fail_by_exit_value__(__resolve_working_dir__(self.kwargs))

MPMDMPI__configure_core_element__(self, kwargs, heap) ==
    LET impl_type == "MPMDMPI"
        runner == self.kwargs.runner
        resolved == MPMDMPI_resolved(self)
        ppn == str(get(resolved, "processes_per_node", Integer(1)))
        impl_signature == String(Join(<<".">>, <<<<impl_type>>, str(ppn).str>>))
        prog_params == _get_programs_params(resolved)
        impl_args == <<runner, ppn, resolved.working_dir,
                       resolved.fail_by_exit_value>> \o prog_params
        attached == MPMDMPI_core_element(kwargs, heap, impl_type,
                                         impl_signature, impl_args)
    IN  [self |-> [self EXCEPT !.kwargs = resolved,
                               !.core_element_configured = TRUE],
         kwargs |-> attached.kwargs,
         core_elements |-> attached.core_elements]

\* HTTP.__configure_core_element__, lines 161-173
\* the signature is set as well, as the other decorators do
HTTP_core_element_signed(kwargs, heap, impl_type, impl_args) ==
    LET signed(ce) ==
            set_impl_signature(
                set_impl_type_args(set_impl_type(ce, impl_type), impl_args),
                String(<<"HTTP.">>))
    IN  IF CORE_ELEMENT_KEY \in DOMAIN kwargs
        THEN [kwargs |-> kwargs,
              core_elements |->
                  [heap EXCEPT ![kwargs[CORE_ELEMENT_KEY].ref] = signed(@)]]
        ELSE [kwargs |-> SetKey(kwargs, CORE_ELEMENT_KEY, Ref(Len(heap) + 1)),
              core_elements |-> Append(heap, signed(CE))]

HTTP_core_element(kwargs, heap, impl_type, impl_args) ==
    IF CORE_ELEMENT_KEY \in DOMAIN kwargs
    THEN LET i == kwargs[CORE_ELEMENT_KEY].ref
         IN  [kwargs |-> kwargs,
              core_elements |->
                  [heap EXCEPT ![i] =
                      set_impl_type_args(set_impl_type(heap[i], impl_type),
                                         impl_args)]]
    ELSE LET core_element ==
                 set_impl_type_args(set_impl_type(CE, impl_type), impl_args)
         IN  [kwargs |-> SetKey(kwargs, CORE_ELEMENT_KEY, Ref(Len(heap) + 1)),
              core_elements |-> Append(heap, core_element)]

HTTP__configure_core_element__(self, kwargs, heap) ==
    LET impl_type == "HTTP"
        impl_args == <<self.kwargs.service_name,
                       self.kwargs.resource,
                       self.kwargs.request,
                       get(self.kwargs, "payload", String(<<"#">>)),
                       get(self.kwargs, "payload_type",
                           String(<<"application/json">>)),
                       get(self.kwargs, "produces", String(<<"#">>)),
                       get(self.kwargs, "updates", String(<<"#">>))>>
        attached == HTTP_core_element(kwargs, heap, impl_type, impl_args)
    IN  [self |-> [self EXCEPT !.core_element_configured = TRUE],
         kwargs |-> attached.kwargs,
         core_elements |-> attached.core_elements]

\* what a call of __configure_core_element__ was given and what it left
Configuration(self, kwargs, heap, after) ==
    [decorator |-> self.name,
     kwargs |-> kwargs, core_elements |-> heap,
     kwargs_after |-> after.kwargs, core_elements_after |-> after.core_elements]

DecoratorInit ==
    /\ ExecutorIdle
    /\ NoBoot
    /\ NoPipeCall
    /\ NoSignal
    /\ NoStreamCall
    /\ NoTypeCall
    /\ NoParamCall
    /\ context \in Contexts
    /\ decorators \in Stacks
    /\ core_elements = <<>>
    /\ call_kwargs = <<>>
    /\ frame = 0
    /\ invocations = 0
    /\ FORCED_SERIALIZER = -1
    /\ configurations = <<>>
    /\ current_core_element = CE

\* the decorated function is called, with or without a core element that a
\* decorator further out has put in the keyword arguments
invoke ==
    /\ frame = 0
    /\ invocations < MaxCalls
    /\ invocations' = invocations + 1
    /\ frame' = 1
    /\ \E outer \in BOOLEAN :
          IF outer
          THEN /\ core_elements' = Append(core_elements, CE)
               /\ call_kwargs' =
                      SetKey(<<>>, CORE_ELEMENT_KEY, Ref(Len(core_elements')))
          ELSE /\ call_kwargs' = <<>>
               /\ UNCHANGED core_elements
    /\ UNCHANGED <<context, decorators, FORCED_SERIALIZER, configurations,
                   current_core_element>>
    /\ UNCHANGED beside_ce

\* MPMDMPI.__decorator_body__, up to the call of the function it wraps
mpmd_mpi ==
    /\ frame \in 1..Len(decorators)
    /\ decorators[frame].name = "MPMDMPI"
    /\ LET self == decorators[frame]
           configures == /\ context.in_master \/ context.nesting
                         /\ ~self.core_element_configured
           processes_per_node ==
               get(self.kwargs, "processes_per_node", Integer(1))
       IN  IF ~context.scope
           THEN \* raise NotImplementedError
                /\ frame' = 0
                /\ UNCHANGED <<decorators, core_elements, call_kwargs,
                               configurations>>
           ELSE IF configures
                   /\ _get_programs_params_raises(MPMDMPI_resolved(self))
           THEN \* raise PyCOMPSsException
                /\ frame' = 0
                /\ decorators' =
                      [decorators EXCEPT ![frame].kwargs =
                                             MPMDMPI_resolved(self)]
                /\ UNCHANGED <<core_elements, call_kwargs, configurations>>
           ELSE IF configures
           THEN LET after == MPMDMPI__configure_core_element__(
                                 self, call_kwargs, core_elements)
                IN  /\ decorators' = [decorators EXCEPT ![frame] = after.self]
                    /\ core_elements' = after.core_elements
                    /\ call_kwargs' = SetKey(after.kwargs,
                                             "processes_per_node",
                                             processes_per_node)
                    /\ configurations' =
                          Append(configurations,
                                 Configuration(self, call_kwargs,
                                               core_elements, after))
                    /\ frame' = frame + 1
           ELSE /\ call_kwargs' = SetKey(call_kwargs, "processes_per_node",
                                         processes_per_node)
                /\ frame' = frame + 1
                /\ UNCHANGED <<decorators, core_elements, configurations>>
    /\ UNCHANGED <<context, invocations, FORCED_SERIALIZER,
                   current_core_element>>
    /\ UNCHANGED beside_ce

\* HTTP.__decorator_body__, up to the call of the function it wraps
http_f ==
    /\ frame \in 1..Len(decorators)
    /\ decorators[frame].name = "HTTP"
    /\ FORCED_SERIALIZER' = 4
    /\ LET self == decorators[frame]
           configures == /\ context.in_master \/ context.nesting
                         /\ ~self.core_element_configured
       IN  IF configures
           THEN LET after == HTTP__configure_core_element__(
                                 self, call_kwargs, core_elements)
                IN  /\ decorators' = [decorators EXCEPT ![frame] = after.self]
                    /\ core_elements' = after.core_elements
                    /\ call_kwargs' = after.kwargs
                    /\ configurations' =
                          Append(configurations,
                                 Configuration(self, call_kwargs,
                                               core_elements, after))
           ELSE UNCHANGED <<decorators, core_elements, call_kwargs,
                            configurations>>
    /\ frame' = frame + 1
    /\ UNCHANGED <<context, invocations, current_core_element>>
    /\ UNCHANGED beside_ce

\* OmpSs.__call__: what the registration leaves in self and in the core
\* element that @task has established
ompss_register(self, cce) ==
    LET binary == self.kwargs.binary
        resolved == __resolve_fail_by_exit_value__(
                        __resolve_working_dir__(self.kwargs))
        impl_signature == String(<<"OMPSS.">> \o binary.str)
        impl_args == <<binary, resolved.working_dir,
                       resolved.fail_by_exit_value>>
    IN  [self |-> [self EXCEPT !.kwargs = resolved, !.registered = TRUE],
         cce |-> set_impl_type_args(
                     set_impl_signature(set_impl_type(cce, "OMPSS"),
                                        impl_signature), impl_args)]

\* OmpSs.__call__: ompss_f, up to the call of the function it wraps
ompss_f ==
    /\ frame \in 1..Len(decorators)
    /\ decorators[frame].name = "OmpSs"
    /\ LET self == decorators[frame]
       IN  IF ~context.scope
           THEN \* raise Exception
                /\ frame' = 0
                /\ UNCHANGED <<decorators, call_kwargs, current_core_element>>
           ELSE /\ IF context.in_master /\ ~self.registered
                   THEN LET after ==
                                ompss_register(self, current_core_element)
                        IN  /\ decorators' =
                                   [decorators EXCEPT ![frame] = after.self]
                            /\ current_core_element' = after.cce
                   ELSE UNCHANGED <<decorators, current_core_element>>
                /\ call_kwargs' = SetKey(call_kwargs, "computing_nodes",
                                         self.kwargs.computing_nodes)
                /\ frame' = frame + 1
    /\ UNCHANGED <<context, core_elements, invocations, FORCED_SERIALIZER,
                   configurations>>
    /\ UNCHANGED beside_ce

\* the function under the decorators runs and the call returns
user_function ==
    /\ frame = Len(decorators) + 1
    /\ frame' = 0
    /\ UNCHANGED <<context, decorators, core_elements, call_kwargs,
                   invocations, FORCED_SERIALIZER, configurations,
                   current_core_element>>
    /\ UNCHANGED beside_ce

DecoratorNext ==
    \/ invoke
    \/ mpmd_mpi
    \/ http_f
    \/ ompss_f
    \/ user_function

SpecDecorator == DecoratorInit /\ [][DecoratorNext]_vars

(***************************************************************************)
(* C20: whenever MPMDMPI or HTTP has configured the core element: if the   *)
(* keyword arguments of the call held a CE under the reserved key, they    *)
(* hold that same object afterwards, it is the only object that changed    *)
(* and no CE was created; otherwise exactly one CE was created, it is the  *)
(* one under the reserved key and no older object changed.  In both cases  *)
(* the keyword arguments then hold exactly one CE, and its impl_type is    *)
(* the tag of the decorator.                                               *)
(***************************************************************************)
IsCE(v) == "ref" \in DOMAIN v

HeldCEs(kwargs) == { k \in DOMAIN kwargs : IsCE(kwargs[k]) }

ImplTypeOf == [MPMDMPI |-> "MPMDMPI", HTTP |-> "HTTP"]

InPlace(c) ==
    /\ c.kwargs_after[CORE_ELEMENT_KEY] = c.kwargs[CORE_ELEMENT_KEY]
    /\ Len(c.core_elements_after) = Len(c.core_elements)
    /\ \A i \in 1..Len(c.core_elements) :
          i /= c.kwargs[CORE_ELEMENT_KEY].ref
              => c.core_elements_after[i] = c.core_elements[i]

Fresh(c) ==
    /\ Len(c.core_elements_after) = Len(c.core_elements) + 1
    /\ c.kwargs_after[CORE_ELEMENT_KEY] = Ref(Len(c.core_elements_after))
    /\ \A i \in 1..Len(c.core_elements) :
          c.core_elements_after[i] = c.core_elements[i]

C20_AttachOrCreate ==
    \A n \in 1..Len(configurations) :
        LET c == configurations[n]
        IN  /\ IF CORE_ELEMENT_KEY \in DOMAIN c.kwargs
               THEN InPlace(c)
               ELSE Fresh(c)
            /\ HeldCEs(c.kwargs_after) = {CORE_ELEMENT_KEY}
            /\ c.core_elements_after[c.kwargs_after[CORE_ELEMENT_KEY].ref]
                   .impl_type = ImplTypeOf[c.decorator]

\* one call in which a first decorator created the CE and a second one,
\* of the other class, changed that same object
C20_Witness ==
    /\ Len(configurations) >= 2
    /\ LET first == configurations[1]
           second == configurations[2]
       IN  /\ CORE_ELEMENT_KEY \notin DOMAIN first.kwargs
           /\ CORE_ELEMENT_KEY \in DOMAIN second.kwargs
           /\ second.kwargs[CORE_ELEMENT_KEY]
                  = first.kwargs_after[CORE_ELEMENT_KEY]
           /\ first.decorator /= second.decorator
           /\ second.core_elements_after[
                  second.kwargs[CORE_ELEMENT_KEY].ref].impl_type
                  = ImplTypeOf[second.decorator]
           /\ first.core_elements_after[
                  first.kwargs_after[CORE_ELEMENT_KEY].ref].impl_type
                  = ImplTypeOf[first.decorator]

(***************************************************************************)
(* C21: whenever MPMDMPI configures the core element, the CE under the     *)
(* reserved key gets the signature MPMDMPI.<processes_per_node>, with 1    *)
(* when processes_per_node is not given, and the argument list runner,     *)
(* ppn, working_dir, fail_by_exit_value, number of programs, and then for  *)
(* each program in declaration order its binary, its params and its        *)
(* processes, "#" standing for params or processes that are not given.     *)
(***************************************************************************)
ConfiguresNow(name) ==
    /\ frame \in 1..Len(decorators)
    /\ decorators[frame].name = name
    /\ Len(configurations') = Len(configurations) + 1

ConfiguredCE == core_elements'[call_kwargs'[CORE_ELEMENT_KEY].ref]

PpnText(given) ==
    IF "processes_per_node" \in DOMAIN given
    THEN StrOfInt(given.processes_per_node.int)
    ELSE <<"1">>

ProgramArgsAsClaimed(program, args, at) ==
    /\ args[at + 1] = program.binary
    /\ args[at + 2] = IF "params" \in DOMAIN program THEN program.params
                      ELSE String(<<"#">>)
    /\ args[at + 3] = IF "processes" \in DOMAIN program
                      THEN program.processes
                      ELSE String(<<"#">>)

ArgsAsClaimed(given, resolved, args) ==
    /\ Len(args) = 5 + 3 * Len(given.programs)
    /\ args[1] = given.runner
    /\ args[2] = String(PpnText(given))
    /\ args[3] = resolved.working_dir
    /\ "working_dir" \in DOMAIN given => args[3] = given.working_dir
    /\ args[4] = resolved.fail_by_exit_value
    /\ "fail_by_exit_value" \in DOMAIN given
           => args[4] = given.fail_by_exit_value
    /\ args[5] = Integer(Len(given.programs))
    /\ \A i \in 1..Len(given.programs) :
          ProgramArgsAsClaimed(given.programs[i], args, 5 + 3 * (i - 1))

C21_MpmdMpiSignatureAndArgs ==
    [][ConfiguresNow("MPMDMPI")
         => /\ ConfiguredCE.impl_signature
                  = String(<<"MPMDMPI", ".">> \o PpnText(decorators[frame].kwargs))
            /\ ArgsAsClaimed(decorators[frame].kwargs,
                             decorators'[frame].kwargs,
                             ConfiguredCE.impl_type_args.list)]_vars

\* @mpmd_mpi with two programs, the second without params and processes,
\* and 2 processes per node has configured a core element
C21_Witness ==
    /\ Len(configurations) >= 1
    /\ LET c == configurations[Len(configurations)]
           ce == c.core_elements_after[c.kwargs_after[CORE_ELEMENT_KEY].ref]
       IN  /\ c.decorator = "MPMDMPI"
           /\ ce.impl_signature = String(<<"MPMDMPI", ".", "2">>)
           /\ ce.impl_type_args
                 = List(<<String(<<"srun">>), String(<<"2">>),
                          String(<<"/tmp">>), String(<<"false">>), Integer(2),
                          String(<<"hostname">>), String(<<"-f">>), Integer(2),
                          String(<<"date">>), String(<<"#">>),
                          String(<<"#">>)>>)


(***************************************************************************)
(* Distributed streams (pycompss/streams/distro_stream.py).                *)
(***************************************************************************)
FILE == "FILE"
OBJECT == "OBJECT"
PSCO == "PSCO"

AT_MOST_ONCE == "AT_MOST_ONCE"

TOPIC_REGULAR_MESSAGES_PREFIX == <<"regular-messages">>

DEFAULT_KAFKA_TIMEOUT == 200

\* str.lower() for the texts of the model
lower(t) == [i \in 1..Len(t) |-> IF t[i] \in {"True", "TRUE"} THEN "true"
                                 ELSE IF t[i] \in {"False", "FALSE"}
                                 THEN "false" ELSE t[i]]

\* str2bool: val.lower() raises AttributeError when val is None
str2bool_raises(val) == val = NoneObject

str2bool(val) ==
    lower(val.str) \in {<<"yes">>, <<"true">>, <<"t">>, <<"1">>}

\* what the streaming client can answer to a request: an error code and
\* an optional message
Answer(error, response) == [error |-> error, response |-> response]

ClientAnswers ==
    [RegisterStream |-> { Answer(0, String(<<"id1">>)),
                          Answer(1, NoneObject) },
     CloseStream |-> { Answer(0, String(<<"DONE">>)), Answer(1, NoneObject) },
     StreamStatus |-> { Answer(0, String(<<"True">>)),
                        Answer(0, String(<<"false">>)),
                        Answer(1, String(<<"false">>)),
                        Answer(1, NoneObject) },
     BootstrapServer |-> { Answer(0, String(<<"kafka:9092">>)),
                           Answer(1, NoneObject) },
     Poll |-> { Answer(0, NoneObject), Answer(0, String(<<>>)),
                Answer(0, String(<<"null">>)),
                Answer(0, String(<<"f1", "\n", "my", " ", "f2">>)),
                Answer(1, NoneObject) },
     Publish |-> { Answer(0, String(<<"DONE">>)), Answer(1, NoneObject) }]

\* a request as it is once wait_processed has returned
Request(kind, args, answer) ==
    [kind |-> kind, args |-> args, error |-> answer.error,
     response |-> answer.response]

\* the aliases a stream is constructed with; "" is the default of
\* ObjectDistroStream
Aliases == { String(<<>>), String(<<"a">>) }

\* DistroStreamImpl.__init__ up to the request; the object has no id
Unregistered(stream_type, alias) ==
    [stream_type |-> stream_type, alias |-> alias,
     access_mode |-> AT_MOST_ONCE, id |-> NoneObject,
     base_dir |-> NoneObject, kafka_topic_name |-> NoneObject,
     bootstrap_server |-> NoneObject, publisher |-> NoneObject,
     consumer |-> NoneObject]

\* the constructor of the class, after DistroStreamImpl.__init__ has
\* returned with the id
Constructed(self) ==
    IF self.stream_type = FILE
    THEN [self EXCEPT !.base_dir = String(<<"/streams">>)]
    ELSE IF self.stream_type = OBJECT
    THEN [self EXCEPT
            !.kafka_topic_name =
                IF self.alias /= String(<<>>)
                THEN String(TOPIC_REGULAR_MESSAGES_PREFIX \o <<"-">>
                            \o self.id.str)
                ELSE self.alias,
            !.bootstrap_server = String(<<"None">>)]
    ELSE self

\* a call of a method: the object before and after, the exception that
\* left the call, whether an error was logged, and what was returned
Call(op, before, after, raised, logged, result) ==
    [op |-> op, before |-> before, after |-> after, raised |-> raised,
     logged |-> logged, result |-> result, requests |-> Len(requests)]

StreamInit ==
    /\ ExecutorIdle
    /\ NoBoot
    /\ NoPipeCall
    /\ NoSignal
    /\ NoTypeCall
    /\ NoParamCall
    /\ NoDecoratedCall
    /\ stream = [stream_type |-> "none"]
    /\ requests = <<>>
    /\ kafka = <<>>
    /\ pscos = <<>>
    /\ stream_calls = <<>>

\* FileDistroStream(...), ObjectDistroStream(...), PscoDistroStream(...)
DistroStreamImpl_init ==
    /\ stream.stream_type = "none"
    /\ \E stream_type \in {FILE, OBJECT, PSCO}, alias \in Aliases,
          answer \in ClientAnswers.RegisterStream :
          LET self == Unregistered(stream_type, alias)
              req == Request("RegisterStream",
                             <<alias, String(<<stream_type>>),
                               String(<<AT_MOST_ONCE>>)>>, answer)
          IN  /\ requests' = Append(requests, req)
              /\ IF req.error /= 0
                 THEN /\ stream' = self
                      /\ stream_calls' =
                           Append(stream_calls,
                                  Call("__init__", stream, self,
                                       "RegistrationException", FALSE,
                                       NoneObject))
                 ELSE /\ stream' =
                           Constructed([self EXCEPT !.id = req.response])
                      /\ stream_calls' =
                           Append(stream_calls,
                                  Call("__init__", stream, stream', "none",
                                       FALSE, NoneObject))
    /\ UNCHANGED <<kafka, pscos>>
    /\ UNCHANGED beside_stream

\* the stream has been constructed and can be called
Registered == stream.stream_type /= "none" /\ stream.id /= NoneObject

\* what a method leaves: the object, the requests, the connector calls, the
\* persistent objects, and how the call ended
Left(self, reqs, conn, objs, raised, logged, result) ==
    [stream |-> self, requests |-> reqs, kafka |-> conn, pscos |-> objs,
     raised |-> raised, logged |-> logged, result |-> result]

\* DistroStreamImpl.close
DistroStreamImpl_close(self, reqs, answer) ==
    LET req == Request("CloseStream", <<self.id>>, answer)
    IN  Left(self, Append(reqs, req), kafka, pscos, "none",
             IF req.error /= 0 THEN "error" ELSE "none", NoneObject)

\* DistroStreamImpl.is_closed
DistroStreamImpl_is_closed(self, reqs, answer) ==
    LET req == Request("StreamStatus", <<self.id>>, answer)
        logged == IF req.error /= 0 THEN "error" ELSE "none"
    IN  IF str2bool_raises(req.response)
        THEN Left(self, Append(reqs, req), kafka, pscos, "AttributeError",
                  logged, NoneObject)
        ELSE Left(self, Append(reqs, req), kafka, pscos, "none", logged,
                  [bool |-> str2bool(req.response)])

\* info is not None and info and info != "null"
HasItems(info) ==
    /\ info /= NoneObject
    /\ info /= String(<<>>)
    /\ info /= String(<<"null">>)

\* FileDistroStream.poll
FileDistroStream_poll(self, reqs, answer) ==
    LET req == Request("Poll", <<self.id>>, answer)
        info == req.response
    IN  IF req.error /= 0
        THEN Left(self, Append(reqs, req), kafka, pscos, "BackendException",
                  "none", NoneObject)
        ELSE Left(self, Append(reqs, req), kafka, pscos, "none", "none",
                  List(IF HasItems(info) THEN Split(info.str) ELSE <<>>))

\* pycompss.util.storages.persistent.get_by_id
get_by_id(psco_id) == [id |-> String(psco_id)]

\* PscoDistroStream.poll
PscoDistroStream_poll(self, reqs, answer) ==
    LET req == Request("Poll", <<self.id>>, answer)
        info == req.response
        ids == IF HasItems(info) THEN Split(info.str) ELSE <<>>
    IN  IF req.error /= 0
        THEN Left(self, Append(reqs, req), kafka, pscos, "BackendException",
                  "none", NoneObject)
        ELSE Left(self, Append(reqs, req), kafka, pscos, "none", "none",
                  List([i \in 1..Len(ids) |-> get_by_id(ids[i])]))

\* ObjectDistroStream._register_publisher
_register_publisher(self, reqs, answer) ==
    IF self.publisher /= NoneObject
    THEN Left(self, reqs, kafka, pscos, "none", "none", NoneObject)
    ELSE LET asks == self.bootstrap_server = String(<<"None">>)
             req == Request("BootstrapServer", <<>>, answer)
             after == IF asks THEN Append(reqs, req) ELSE reqs
             server == IF asks THEN req.response ELSE self.bootstrap_server
         IN  IF asks /\ req.error /= 0
             THEN Left(self, after, kafka, pscos, "BackendException", "none",
                       NoneObject)
             ELSE Left([self EXCEPT !.bootstrap_server = server,
                                    !.publisher = [server |-> server]],
                       after,
                       Append(kafka, [op |-> "ODSPublisher",
                                      server |-> server]),
                       pscos, "none", "none", NoneObject)

\* ObjectDistroStream._register_consumer
_register_consumer(self, reqs, answer) ==
    IF self.consumer /= NoneObject
    THEN Left(self, reqs, kafka, pscos, "none", "none", NoneObject)
    ELSE LET asks == self.bootstrap_server = String(<<"None">>)
             req == Request("BootstrapServer", <<>>, answer)
             after == IF asks THEN Append(reqs, req) ELSE reqs
             server == IF asks THEN req.response ELSE self.bootstrap_server
             made == [server |-> server, topic |-> self.kafka_topic_name,
                      access_mode |-> self.access_mode]
         IN  IF asks /\ req.error /= 0
             THEN Left(self, after, kafka, pscos, "BackendException", "none",
                       NoneObject)
             ELSE Left([self EXCEPT !.bootstrap_server = server,
                                    !.consumer = made],
                       after,
                       Append(kafka, [op |-> "ODSConsumer"] @@ made),
                       pscos, "none", "none", NoneObject)

\* self.publisher.publish(self.kafka_topic_name, msg) for each message
RECURSIVE publish_each(_, _, _)
publish_each(self, conn, msgs) ==
    IF msgs = <<>> THEN conn
    ELSE publish_each(self,
                      Append(conn, [op |-> "publish",
                                    topic |-> self.kafka_topic_name,
                                    message |-> Head(msgs)]),
                      Tail(msgs))

\* ObjectDistroStream.publish_list (publish is the case of one message)
ObjectDistroStream_publish_list(self, reqs, msgs, answer) ==
    LET registered == _register_publisher(self, reqs, answer)
    IN  IF registered.raised /= "none" THEN registered
        ELSE [registered EXCEPT
                !.kafka = publish_each(registered.stream, registered.kafka,
                                       msgs)]

\* ObjectDistroStream.poll
ObjectDistroStream_poll(self, reqs, timeout, polled, answer) ==
    LET registered == _register_consumer(self, reqs, answer)
    IN  IF registered.raised /= "none" THEN registered
        ELSE [registered EXCEPT
                !.kafka = Append(registered.kafka,
                                 [op |-> "poll", timeout |-> timeout]),
                !.result = List(polled)]

\* the Publish request is made with the id the object was given with, and
\* the object is persisted only once the request has succeeded
_psco_publish_request_first(self, reqs, objs, psco, uuid4, answer) ==
    LET req == Request("Publish", <<self.id, objs[psco].id>>, answer)
    IN  Left(self, Append(reqs, req), kafka,
             IF req.error = 0 /\ objs[psco].id = NoneObject
             THEN [objs EXCEPT ![psco].id = String(uuid4)] ELSE objs,
             IF req.error /= 0 THEN "BackendException" ELSE "none", "none",
             NoneObject)

\* PscoDistroStream._psco_publish
_psco_publish(self, reqs, objs, psco, uuid4, answer) ==
    LET persisted == IF objs[psco].id = NoneObject
                     THEN [objs EXCEPT ![psco].id = String(uuid4)]
                     ELSE objs
        psco_id == persisted[psco].id
        req == Request("Publish", <<self.id, psco_id>>, answer)
    IN  Left(self, Append(reqs, req), kafka, persisted,
             IF req.error /= 0 THEN "BackendException" ELSE "none", "none",
             NoneObject)

\* PscoDistroStream.publish_list (publish is the case of one object): the
\* loop ends at the first exception
RECURSIVE PscoDistroStream_publish_list(_, _, _, _, _, _)
PscoDistroStream_publish_list(self, reqs, objs, msgs, uuids, answers) ==
    IF msgs = <<>>
    THEN Left(self, reqs, kafka, objs, "none", "none", NoneObject)
    ELSE LET first == _psco_publish(self, reqs, objs, Head(msgs),
                                    Head(uuids), Head(answers))
         IN  IF first.raised /= "none" THEN first
             ELSE PscoDistroStream_publish_list(
                      self, first.requests, first.pscos, Tail(msgs),
                      Tail(uuids), Tail(answers))

\* FileDistroStream.publish, FileDistroStream.publish_list
FileDistroStream_publish(self, reqs) ==
    Left(self, reqs, kafka, pscos, "none", "warning", NoneObject)

\* the call returns, or an exception leaves it
Leave(op, args, left) ==
    /\ stream' = left.stream
    /\ requests' = left.requests
    /\ kafka' = left.kafka
    /\ pscos' = left.pscos
    /\ stream_calls' =
          Append(stream_calls,
                 Call(op, stream, left.stream, left.raised, left.logged,
                      left.result) @@ [args |-> args])
    /\ UNCHANGED beside_stream

\* the same for a call that is given persistent objects: the objects as
\* they were given and as the call left them
LeavePscos(op, args, objs, left) ==
    /\ stream' = left.stream
    /\ requests' = left.requests
    /\ kafka' = left.kafka
    /\ pscos' = left.pscos
    /\ stream_calls' =
          Append(stream_calls,
                 Call(op, stream, left.stream, left.raised, left.logged,
                      left.result)
                 @@ [args |-> args, given |-> objs, left |-> left.pscos])
    /\ UNCHANGED beside_stream


\* the ids uuid.uuid4() can give
Uuids == { <<"u1">>, <<"u2">> }

\* the objects given to a PSCO stream: not persistent yet, or persistent
Unpersisted == [id |-> NoneObject]
Persisted == [id |-> String(<<"p1">>)]

call_close ==
    /\ Registered
    /\ Len(stream_calls) <= MaxCalls
    /\ \E answer \in ClientAnswers.CloseStream :
          Leave("close", <<>>, DistroStreamImpl_close(stream, requests, answer))

call_is_closed ==
    /\ Registered
    /\ Len(stream_calls) <= MaxCalls
    /\ \E answer \in ClientAnswers.StreamStatus :
          Leave("is_closed", <<>>,
                DistroStreamImpl_is_closed(stream, requests, answer))

call_publish ==
    /\ Registered
    /\ Len(stream_calls) <= MaxCalls
    /\ \/ /\ stream.stream_type = FILE
          /\ Leave("publish", <<"m1">>,
                   FileDistroStream_publish(stream, requests))
       \/ /\ stream.stream_type = OBJECT
          /\ \E answer \in ClientAnswers.BootstrapServer :
                Leave("publish", <<"m1">>,
                      ObjectDistroStream_publish_list(stream, requests,
                                                      <<"m1">>, answer))
       \/ /\ stream.stream_type = PSCO
          /\ \E new \in {<<>>, <<Unpersisted>>, <<Persisted>>},
                uuid4 \in Uuids, answer \in ClientAnswers.Publish :
                LET objs == pscos \o new
                IN  \E psco \in 1..Len(objs) :
                       /\ new /= <<>> => psco = Len(objs)
                       /\ LeavePscos("publish", <<psco>>, objs,
                                PscoDistroStream_publish_list(
                                    stream, requests, objs, <<psco>>,
                                    <<uuid4>>, <<answer>>))

call_publish_list ==
    /\ Registered
    /\ Len(stream_calls) <= MaxCalls
    /\ \/ /\ stream.stream_type = FILE
          /\ Leave("publish_list", <<"m1", "m2">>,
                   FileDistroStream_publish(stream, requests))
       \/ /\ stream.stream_type = OBJECT
          /\ \E msgs \in {<<>>, <<"m1", "m2">>},
                answer \in ClientAnswers.BootstrapServer :
                Leave("publish_list", msgs,
                      ObjectDistroStream_publish_list(stream, requests, msgs,
                                                      answer))
       \/ /\ stream.stream_type = PSCO
          /\ \E new \in {<<Unpersisted>>, <<Unpersisted, Persisted>>,
                         <<Persisted, Unpersisted>>},
                uuids \in [1..2 -> Uuids],
                answers \in [1..2 -> ClientAnswers.Publish] :
                LET objs == pscos \o new
                    msgs == IF Len(new) = 1
                            THEN <<Len(objs), Len(objs)>>
                            ELSE <<Len(objs) - 1, Len(objs)>>
                IN  LeavePscos("publish_list", msgs, objs,
                          PscoDistroStream_publish_list(
                              stream, requests, objs, msgs, uuids, answers))

call_poll ==
    /\ Registered
    /\ Len(stream_calls) <= MaxCalls
    /\ \/ /\ stream.stream_type = FILE
          /\ \E answer \in ClientAnswers.Poll :
                Leave("poll", <<>>,
                      FileDistroStream_poll(stream, requests, answer))
       \/ /\ stream.stream_type = OBJECT
          /\ \E polled \in {<<>>, <<"m1">>},
                answer \in ClientAnswers.BootstrapServer :
                Leave("poll", <<>>,
                      ObjectDistroStream_poll(stream, requests,
                                              DEFAULT_KAFKA_TIMEOUT, polled,
                                              answer))
       \/ /\ stream.stream_type = PSCO
          /\ \E answer \in ClientAnswers.Poll :
                Leave("poll", <<>>,
                      PscoDistroStream_poll(stream, requests, answer))

StreamNext ==
    \/ DistroStreamImpl_init
    \/ call_close
    \/ call_is_closed
    \/ call_publish
    \/ call_publish_list
    \/ call_poll

SpecStream == StreamInit /\ [][StreamNext]_vars


(***************************************************************************)
(* C22: in every call of a stream, a request answered with a non-zero      *)
(* error code has the effect of its kind: RegisterStream makes the         *)
(* constructor raise RegistrationException and the stream has no id; Poll, *)
(* Publish and BootstrapServer make the call raise BackendException and    *)
(* the stream keeps its id; CloseStream and StreamStatus are logged as an  *)
(* error and the call returns normally.                                    *)
(***************************************************************************)
\* the requests submitted during the n-th call
RequestsOf(n) ==
    LET from == stream_calls[n].requests + 1
        to == IF n < Len(stream_calls) THEN stream_calls[n + 1].requests
              ELSE Len(requests)
    IN  { requests[i] : i \in from..to }

FailedKinds(n) == { r.kind : r \in { q \in RequestsOf(n) : q.error /= 0 } }

C22_ErrorCodePerRequestKind ==
    \A n \in 1..Len(stream_calls) :
        LET c == stream_calls[n]
        IN  /\ "RegisterStream" \in FailedKinds(n)
                => /\ c.raised = "RegistrationException"
                   /\ c.after.id = NoneObject
            /\ FailedKinds(n) \cap {"Poll", "Publish", "BootstrapServer"} /= {}
                => /\ c.raised = "BackendException"
                   /\ c.after.id = c.before.id
                   /\ c.after.id /= NoneObject
            /\ FailedKinds(n) \cap {"CloseStream", "StreamStatus"} /= {}
                => /\ c.raised = "none"
                   /\ c.logged = "error"


(***************************************************************************)
(* The Pipe class on its own (executor.py, lines 95-154): a Pipe object is *)
(* constructed and its methods are called in any order.  What the next     *)
(* readline calls on the input file would return is an input of the call:  *)
(* a record with its newline, or the empty string at end of file.          *)
(***************************************************************************)
EOF == <<>>

Records == {PING_TAG \o NL, QUIT_TAG \o NL}

\* what the next three readline calls would return, in order
Supplies ==
    {<<a, b, c>> : a \in Records \cup {EOF}, b \in Records \cup {EOF},
                   c \in {EOF, PING_TAG \o NL}}

\* Pipe.__init__, lines 102-113
Pipe__init__ == [input_pipe_open |-> NoHandle]

PipeInit ==
    /\ ExecutorIdle
    /\ NoBoot
    /\ NoSignal
    /\ NoTypeCall
    /\ NoParamCall
    /\ NoDecoratedCall
    /\ NoStreamCall
    /\ pipe = Pipe__init__
    /\ input_files = <<>>
    /\ output_pipe = <<>>
    /\ pipe_calls = <<>>

\* the input file is opened at every read
open_input_always(p, files) == Append(files, "open")

\* read_command, lines 122-123: the input is opened if there is no handle
open_input(p, files) ==
    IF p.input_pipe_open = NoHandle THEN Append(files, "open") ELSE files

RECURSIVE FirstRecord(_, _)
FirstRecord(supply, k) ==
    IF k = Len(supply) \/ supply[k] /= EOF THEN k
    ELSE FirstRecord(supply, k + 1)

\* readline is repeated until a record is read
read_command_until_record(supply) ==
    [line |-> supply[FirstRecord(supply, 1)],
     reads |-> FirstRecord(supply, 1),
     sleeps |-> FirstRecord(supply, 1) - 1]

\* read_command, lines 128-134: the line returned, the number of readline
\* calls and the number of sleeps
read_command(supply) ==
    IF supply[1] = EOF
    THEN [line |-> supply[2], reads |-> 2, sleeps |-> 1]
    ELSE [line |-> supply[1], reads |-> 1, sleeps |-> 0]

\* a call of a method of the Pipe, with the object and the files before and
\* after it
PipeCall(op, arg, after, files, did) ==
    [op |-> op, arg |-> arg,
     before |-> pipe, after |-> after,
     files_before |-> input_files, files_after |-> files,
     written |-> Len(output_pipe),
     line |-> did.line, reads |-> did.reads, sleeps |-> did.sleeps]

NoRead == [line |-> EOF, reads |-> 0, sleeps |-> 0]

call_read_command ==
    /\ Len(pipe_calls) <= MaxCalls
    /\ \E supply \in Supplies :
          LET files == open_input(pipe, input_files)
              after == [pipe EXCEPT !.input_pipe_open = OpenHandle]
          IN  /\ pipe' = after
              /\ input_files' = files
              /\ pipe_calls' = Append(pipe_calls,
                                  PipeCall("read_command", supply, after,
                                           files, read_command(supply)))
    /\ UNCHANGED output_pipe
    /\ UNCHANGED beside_pipe

call_write ==
    /\ Len(pipe_calls) <= MaxCalls
    /\ \E message \in {PONG_TAG, QUIT_TAG} :
          /\ output_pipe' = write(output_pipe, message)
          /\ pipe_calls' = Append(pipe_calls,
                              PipeCall("write", <<message>>, pipe,
                                       input_files, NoRead))
    /\ UNCHANGED <<pipe, input_files>>
    /\ UNCHANGED beside_pipe

call_pipe_close ==
    /\ Len(pipe_calls) <= MaxCalls
    /\ LET handle == pipe.input_pipe_open
           files == IF input_files = <<>> THEN input_files
                    ELSE [input_files EXCEPT
                            ![Len(input_files)] = close_file(handle, @)]
           after == [pipe EXCEPT !.input_pipe_open = close(handle)]
       IN  /\ pipe' = after
           /\ input_files' = files
           /\ pipe_calls' = Append(pipe_calls,
                               PipeCall("close", <<>>, after, files, NoRead))
    /\ UNCHANGED output_pipe
    /\ UNCHANGED beside_pipe

PipeNext ==
    \/ call_read_command
    \/ call_write
    \/ call_pipe_close

SpecPipe == PipeInit /\ [][PipeNext]_vars

ReadCalls == {i \in 1..Len(pipe_calls) : pipe_calls[i].op = "read_command"}

(***************************************************************************)
(* C29: a call of read_command makes at most two reads: one if the first   *)
(* read returns a record, which is returned; otherwise it sleeps once and  *)
(* reads exactly once more, and returns what the second read returned,     *)
(* the empty string when both reads are empty.                             *)
(***************************************************************************)
C29_AtMostTwoReads ==
    \A i \in ReadCalls :
        LET c == pipe_calls[i]
            first == c.arg[1]
            second == c.arg[2]
        IN  /\ c.reads \in {1, 2}
            /\ c.reads = 2 <=> first = EOF
            /\ c.sleeps = (IF first = EOF THEN 1 ELSE 0)
            /\ c.line = (IF first /= EOF THEN first
                         ELSE IF second /= EOF THEN second
                         ELSE EOF)

\* a call whose two reads were empty returned the empty string although a
\* third read would have found a record
C29_Witness ==
    \E i \in ReadCalls :
        /\ pipe_calls[i].arg = <<EOF, EOF, PING_TAG \o NL>>
        /\ pipe_calls[i].line = EOF
        /\ pipe_calls[i].reads = 2
        /\ pipe_calls[i].sleeps = 1

OpenFiles(files) == {k \in 1..Len(files) : files[k] = "open"}

\* the call left the handle and the files on the input pipe as they were
InputUntouched(c) ==
    /\ c.after = c.before
    /\ c.files_after = c.files_before

(***************************************************************************)
(* C30: the input handle is not opened by the construction or by write; a  *)
(* read_command opens it if there is none and reuses it otherwise; close   *)
(* closes the open file and resets the handle, and does nothing if there   *)
(* is no handle, so a second close is a no-op and a read_command after a   *)
(* close opens the input again.  At most one file is open at any time, and *)
(* it is the one the handle refers to.                                     *)
(***************************************************************************)
C30_InputHandleLifecycle ==
    /\ pipe_calls = <<>> =>
          pipe.input_pipe_open = NoHandle /\ input_files = <<>>
    /\ OpenFiles(input_files) =
          (IF pipe.input_pipe_open = NoHandle THEN {}
           ELSE {Len(input_files)})
    /\ \A i \in 1..Len(pipe_calls) :
          LET c == pipe_calls[i]
              had == c.before.input_pipe_open /= NoHandle
          IN  /\ c.op = "write" => InputUntouched(c)
              /\ c.op = "read_command" =>
                    /\ c.after.input_pipe_open /= NoHandle
                    /\ IF had THEN InputUntouched(c)
                       ELSE c.files_after = Append(c.files_before, "open")
              /\ c.op = "close" =>
                    /\ c.after.input_pipe_open = NoHandle
                    /\ IF had
                       THEN /\ Len(c.files_after) = Len(c.files_before)
                            /\ OpenFiles(c.files_after) = {}
                       ELSE InputUntouched(c)

\* read, close, read: the second read has opened the input again
C30_Witness ==
    /\ Len(pipe_calls) = 3
    /\ pipe_calls[1].op = "read_command"
    /\ pipe_calls[2].op = "close"
    /\ pipe_calls[3].op = "read_command"
    /\ input_files = <<"closed", "open">>
    /\ pipe.input_pipe_open = OpenHandle


NumRequestsOf(n) ==
    (IF n < Len(stream_calls) THEN stream_calls[n + 1].requests
     ELSE Len(requests)) - stream_calls[n].requests

FileCalls == {n \in 1..Len(stream_calls) :
                 stream_calls[n].before.stream_type = FILE}

\* the file names of a Poll response, one per line
NewlineSplit(info) ==
    IF info = NoneObject \/ info = String(<<>>) \/ info = String(<<"null">>)
    THEN <<>>
    ELSE SplitOn(info.str, "\n")

(***************************************************************************)
(* C32: on a file stream, publish and publish_list submit no request and   *)
(* leave the stream as it was; poll submits exactly one Poll request and,  *)
(* when the request succeeds, returns the response split on newlines, the  *)
(* empty list for an absent, an empty or a "null" response.                *)
(***************************************************************************)
C32_FileStreamPublishAndPoll ==
    \A n \in FileCalls :
        LET c == stream_calls[n]
        IN  /\ c.op \in {"publish", "publish_list"} =>
                /\ NumRequestsOf(n) = 0
                /\ c.after = c.before
                /\ c.raised = "none"
            /\ c.op = "poll" =>
                /\ NumRequestsOf(n) = 1
                /\ \A r \in RequestsOf(n) : r.kind = "Poll"
                /\ c.raised = "none" =>
                      \A r \in RequestsOf(n) :
                          c.result = List(NewlineSplit(r.response))


ObjectStream == stream.stream_type = OBJECT /\ Registered

\* the topic the messages of the stream belong to
RegularTopic ==
    String(TOPIC_REGULAR_MESSAGES_PREFIX \o <<"-">> \o stream.id.str)

KafkaOps(op) == {k \in 1..Len(kafka) : kafka[k].op = op}

BootstrapInfos ==
    {i \in 1..Len(requests) :
        requests[i].kind = "BootstrapServer" /\ requests[i].error = 0}

(***************************************************************************)
(* C33: on an object stream, whatever its alias, a publisher is created    *)
(* after the bootstrap server info has been obtained and before the first  *)
(* message is published, every message is published to the topic          *)
(* regular-messages-<stream id>, and the consumer is created on that topic *)
(* before the first poll; the bootstrap info is obtained at most once and  *)
(* at most one publisher and one consumer are created.                     *)
(***************************************************************************)
C33_ObjectStreamTopicAndConnectors ==
    ObjectStream =>
        /\ \A k \in KafkaOps("publish") :
              /\ kafka[k].topic = RegularTopic
              /\ \E j \in KafkaOps("ODSPublisher") : j < k
        /\ \A k \in KafkaOps("ODSConsumer") : kafka[k].topic = RegularTopic
        /\ \A k \in KafkaOps("poll") : \E j \in KafkaOps("ODSConsumer") : j < k
        /\ KafkaOps("ODSPublisher") \cup KafkaOps("ODSConsumer") /= {}
              => BootstrapInfos /= {}
        /\ Cardinality(BootstrapInfos) <= 1
        /\ Cardinality(KafkaOps("ODSPublisher")) <= 1
        /\ Cardinality(KafkaOps("ODSConsumer")) <= 1


PscoPublishCalls ==
    {n \in 1..Len(stream_calls) :
        /\ stream_calls[n].before.stream_type = PSCO
        /\ stream_calls[n].op \in {"publish", "publish_list"}}

\* the k-th request of the n-th call
RequestOf(n, k) == requests[stream_calls[n].requests + k]

(***************************************************************************)
(* C34: on a PSCO stream, publish persists the object before the Publish   *)
(* request is sent: an object without id has a new random id even when the *)
(* request fails, an object with an id keeps it, and the request carries   *)
(* the id the object has then.  publish_list publishes in list order, one  *)
(* request per element, and the first failed request raises                *)
(* BackendException and ends the call: no later element is persisted or    *)
(* published.                                                              *)
(***************************************************************************)
C34_PscoPersistedThenPublished ==
    \A n \in PscoPublishCalls :
        LET c == stream_calls[n]
            sent == NumRequestsOf(n)
            published == {c.args[k] : k \in 1..sent}
        IN  /\ sent <= Len(c.args)
            /\ c.raised = "none" <=> sent = Len(c.args) /\ RequestOf(n, sent).error = 0
            /\ c.raised /= "none" =>
                  c.raised = "BackendException" /\ RequestOf(n, sent).error /= 0
            /\ \A k \in 1..(sent - 1) : RequestOf(n, k).error = 0
            /\ \A k \in 1..sent :
                  LET before == c.given[c.args[k]]
                      after == c.left[c.args[k]]
                  IN  /\ RequestOf(n, k).kind = "Publish"
                      /\ RequestOf(n, k).args = <<c.before.id, after.id>>
                      /\ after.id /= NoneObject
                      /\ before.id /= NoneObject => after.id = before.id
                      /\ before.id = NoneObject
                            => \E u \in Uuids : after.id = String(u)
            /\ \A p \in (1..Len(c.given)) \ published : c.left[p] = c.given[p]

\* a publish_list of two objects, the first not persistent yet, whose first
\* Publish request failed: the first object is persistent all the same, the
\* second was left alone
C34_Witness ==
    \E n \in PscoPublishCalls :
        LET c == stream_calls[n]
        IN  /\ c.op = "publish_list"
            /\ c.raised = "BackendException"
            /\ NumRequestsOf(n) = 1
            /\ c.args[1] /= c.args[2]
            /\ c.given[c.args[1]].id = NoneObject
            /\ c.left[c.args[1]].id /= NoneObject
            /\ c.left[c.args[2]] = c.given[c.args[2]]


(***************************************************************************)
(* C38: when HTTP configures the core element, the CE of the call gets     *)
(* impl_type HTTP and impl_type_args [service_name, resource, request,     *)
(* payload, payload_type, produces, updates], with "#" for a payload,      *)
(* produces or updates that was not given and application/json for a       *)
(* payload_type that was not given; its impl_signature is left as it was:  *)
(* the one an outer decorator had set, or none for a new CE.  No other     *)
(* keyword argument of the call changes.                                   *)
(***************************************************************************)
Given(arguments, k, otherwise) ==
    IF k \in DOMAIN arguments THEN arguments[k] ELSE String(otherwise)

HttpArgsAsClaimed(given) ==
    <<given.service_name, given.resource, given.request,
      Given(given, "payload", <<"#">>),
      Given(given, "payload_type", <<"application/json">>),
      Given(given, "produces", <<"#">>),
      Given(given, "updates", <<"#">>)>>

SignatureBefore ==
    IF CORE_ELEMENT_KEY \in DOMAIN call_kwargs
    THEN core_elements[call_kwargs[CORE_ELEMENT_KEY].ref].impl_signature
    ELSE NoneObject

C38_HttpSetsTypeAndArgsOnly ==
    [][ConfiguresNow("HTTP") =>
          /\ ConfiguredCE.impl_type = "HTTP"
          /\ ConfiguredCE.impl_type_args
                = List(HttpArgsAsClaimed(decorators[frame].kwargs))
          /\ ConfiguredCE.impl_signature = SignatureBefore
          /\ \A k \in DOMAIN call_kwargs' \ {CORE_ELEMENT_KEY} :
                k \in DOMAIN call_kwargs /\ call_kwargs'[k] = call_kwargs[k]
      ]_vars

\* HTTP under MPMDMPI with defaults for the optional arguments: the CE has
\* the type and the arguments of HTTP and still the signature MPMDMPI set
C38_Witness ==
    /\ Len(configurations) = 2
    /\ configurations[1].decorator = "MPMDMPI"
    /\ configurations[2].decorator = "HTTP"
    /\ LET ce == core_elements[call_kwargs[CORE_ELEMENT_KEY].ref]
       IN  /\ ce.impl_type = "HTTP"
           /\ ce.impl_signature = String(<<"MPMDMPI", ".", "1">>)
           /\ ce.impl_type_args =
                 List(<<String(<<"service">>), String(<<"users">>),
                        String(<<"GET">>), String(<<"#">>),
                        String(<<"application/json">>), String(<<"#">>),
                        String(<<"#">>)>>)


(***************************************************************************)
(* C39: over the invocations of one decorated function, each decorator     *)
(* instance (MPMDMPI, HTTP, OmpSs) configures the core element at most     *)
(* once: the wrapper that runs in master or nesting-enabled context with   *)
(* its flag unset configures the CE and sets the flag; a wrapper whose     *)
(* flag is set, or that runs outside master and nesting context, neither   *)
(* creates nor changes a CE and leaves the flag as it was.  MPMDMPI puts    *)
(* processes_per_node (the declared value, else 1) in the keyword          *)
(* arguments on every invocation.  Stated for wrappers that run inside     *)
(* PyCOMPSs with arguments that the configuration accepts.                 *)
(***************************************************************************)
Flag(self) ==
    IF self.name = "OmpSs" THEN self.registered ELSE self.core_element_configured

ImplTag == [MPMDMPI |-> "MPMDMPI", HTTP |-> "HTTP", OmpSs |-> "OMPSS"]

\* the wrapper at position f takes its step
WrapperRuns(f) == frame = f /\ frame' /= f

Accepted(self) ==
    self.name = "MPMDMPI" => ~_get_programs_params_raises(MPMDMPI_resolved(self))

CEsUntouched ==
    /\ core_elements' = core_elements
    /\ current_core_element' = current_core_element

\* the CE that the keyword arguments or @task hold is of the decorator's type
ConfiguredFor(self) ==
    IF self.name = "OmpSs"
    THEN current_core_element'.impl_type = ImplTag[self.name]
    ELSE /\ CORE_ELEMENT_KEY \in DOMAIN call_kwargs'
         /\ core_elements'[call_kwargs'[CORE_ELEMENT_KEY].ref].impl_type
                = ImplTag[self.name]

ConfiguredOnce(f) ==
    LET self == decorators[f]
        after == decorators'[f]
        may_configure == context.in_master \/ context.nesting
    IN  /\ (Flag(self) \/ ~may_configure)
              => CEsUntouched /\ Flag(after) = Flag(self)
        /\ (~Flag(self) /\ may_configure)
              => Flag(after) /\ ConfiguredFor(self)
        /\ self.name = "MPMDMPI"
              => /\ "processes_per_node" \in DOMAIN call_kwargs'
                 /\ call_kwargs'["processes_per_node"] =
                        get(self.kwargs, "processes_per_node", Integer(1))
        /\ \A g \in 1..Len(decorators) :
              g /= f => decorators'[g] = decorators[g]

C39_ConfiguredAtMostOnce ==
    [][\A f \in 1..Len(decorators) :
          (WrapperRuns(f) /\ context.scope /\ Accepted(decorators[f]))
              => ConfiguredOnce(f)]_vars

=============================================================================
